---- MODULE Spec2Model ----
(***************************************************************************)
(* Model of the mini-match order matching engine (src/main.cpp): the       *)
(* order book (Level, Book), the MatchingEngine handlers and the           *)
(* single-threaded CommandProcessor that feeds them.                       *)
(*                                                                         *)
(* Representation of the C++ objects:                                      *)
(*   - a Level::Set (std::set<Level, CompareLevel>) is a sequence of       *)
(*     levels in the set's iteration order (CompareLevel: decreasing       *)
(*     price) ;                                                            *)
(*   - a Level is a record price_, qty_, orders_ (the std::list, front     *)
(*     first) and levels_ (the set it lives in, "Buy" or "Sell");          *)
(*   - the address of a Level is the pair (set, price): a std::set node    *)
(*     never moves and a set holds one level per price;                    *)
(*   - an Order is a record order_id_, qty_, level_ (address of its        *)
(*     level) and iterator_ (the identity of its list node, a number       *)
(*     handed out when the node is allocated);                             *)
(*   - orders_by_id_ is a function from order ids to list-node handles.    *)
(* Quantities and prices of the explored commands are far below 2^64,      *)
(* so the unsigned arithmetic of Qty is plain integer arithmetic here.     *)
(***************************************************************************)
EXTENDS Integers, Sequences, FiniteSets

\* Bounds of the explored inputs.
NumIds == 3
MaxPrice == 2
MaxQty == 2
MaxCmds == 3

OrderIDs == 1..NumIds
Prices == 1..MaxPrice
Qtys == 1..MaxQty
Side == {"Buy", "Sell", "Invalid"}
TIF == {"GFD", "IOC", "Invalid"}

NoPtr == [levels_ |-> "Invalid", price_ |-> 0]

Min2(a, b) == IF a <= b THEN a ELSE b

SetMin(S) == CHOOSE x \in S : \A y \in S : x <= y

Reverse(s) == [i \in 1..Len(s) |-> s[Len(s) + 1 - i]]

InsertAt(s, i, x) == SubSeq(s, 1, i - 1) \o <<x>> \o SubSeq(s, i, Len(s))

RemoveAt(s, i) == SubSeq(s, 1, i - 1) \o SubSeq(s, i + 1, Len(s))

\* Qty::value_type is an unsigned integer of 64 bits; the model keeps the
\* arithmetic of an unsigned integer, on QtyBits bits.
QtyBits == 4

QtyModulus == 2 ^ QtyBits

\* Qty::operator+= and Qty::operator-=: unsigned arithmetic, which wraps.
\* operator-= asserts lhs >= rhs; with NDEBUG the difference wraps.
QtyPlus(a, b) == (a + b) % QtyModulus

QtyMinus(a, b) == (a - b) % QtyModulus

\* BuyOrder::is_invalid() without price.is_zero().
AddOrder_is_invalid_ignores_price(msg) ==
    \/ msg.tif = "Invalid"
    \/ msg.qty = 0

\* is_invalid() of the message structs.
AddOrder_is_invalid(msg) ==
    \/ msg.tif = "Invalid"
    \/ msg.price = 0
    \/ msg.qty = 0

ModifyOrder_is_invalid(msg) ==
    \/ msg.side = "Invalid"
    \/ msg.price = 0
    \/ msg.qty = 0

(***************************************************************************)
(* Order, Level                                                            *)
(***************************************************************************)
Order(order_id, qty) ==
    [order_id_ |-> order_id, qty_ |-> qty, level_ |-> NoPtr, iterator_ |-> 0]

Level(price) ==
    [qty_ |-> 0, price_ |-> price, orders_ |-> <<>>, levels_ |-> "Invalid"]

LevelPtr(level) == [levels_ |-> level.levels_, price_ |-> level.price_]

\* Position in the list of the node an iterator designates (0: not in it).
ListPos(orders, it) ==
    IF \E j \in 1..Len(orders) : orders[j].iterator_ = it
    THEN CHOOSE j \in 1..Len(orders) : orders[j].iterator_ = it
    ELSE 0

ListErase(orders, it) ==
    IF ListPos(orders, it) = 0 THEN orders ELSE RemoveAt(orders, ListPos(orders, it))

\* Level::add with the freshly allocated list node `it`.
Level_add(level, order_id, qty, it) ==
    [level EXCEPT
        !.orders_ = Append(@, [order_id_ |-> order_id, qty_ |-> qty,
                               level_ |-> LevelPtr(level), iterator_ |-> it]),
        !.qty_ = QtyPlus(@, qty)]

\* Level::cancel without the update of the aggregate.
Level_cancel_keeps_qty(level, order) ==
    [level EXCEPT !.orders_ = ListErase(@, order.iterator_)]

\* Level::cancel
Level_cancel(level, order) ==
    [level EXCEPT
        !.qty_ = QtyMinus(@, order.qty_),
        !.orders_ = ListErase(@, order.iterator_)]

\* Level::modify_qty: the order keeps its position.
Level_modify_qty(level, order, qty) ==
    [level EXCEPT
        !.qty_ = QtyPlus(QtyMinus(@, order.qty_), qty),
        !.orders_ = [j \in 1..Len(@) |->
                        IF @[j].iterator_ = order.iterator_
                        THEN [@[j] EXCEPT !.qty_ = qty] ELSE @[j]]]

\* Level::modify without the splice: the order keeps its place.
Level_modify_no_splice(level, order, qty) == Level_modify_qty(level, order, qty)

\* Level::modify: modify_qty, then splice the node to the end of the list.
Level_modify(level, order, qty) ==
    LET l1 == Level_modify_qty(level, order, qty)
        pos == ListPos(l1.orders_, order.iterator_)
    IN IF pos = 0 THEN l1
       ELSE [l1 EXCEPT !.orders_ = Append(RemoveAt(@, pos), @[pos])]

\* Level::CompareLevel on the prices: decreasing order.
CompareLevel(lhs, rhs) == lhs > rhs

\* std::set::lower_bound(price): first level not ordered before price.
lower_bound(levels, price) ==
    LET S == {i \in 1..Len(levels) : ~CompareLevel(levels[i].price_, price)}
    IN IF S = {} THEN Len(levels) + 1 ELSE SetMin(S)

(***************************************************************************)
(* Book                                                                    *)
(***************************************************************************)
EmptyBook ==
    [buy_levels_ |-> <<>>, sell_levels_ |-> <<>>, orders_by_id_ |-> <<>>]

LevelsOf(b, set) == IF set = "Buy" THEN b.buy_levels_ ELSE b.sell_levels_

WithLevels(b, set, levels) ==
    IF set = "Buy" THEN [b EXCEPT !.buy_levels_ = levels]
    ELSE [b EXCEPT !.sell_levels_ = levels]

\* Index in its set of the level a Level pointer designates (0: dangling).
LevelIdx(b, ptr) ==
    LET levels == LevelsOf(b, ptr.levels_)
    IN IF \E i \in 1..Len(levels) : levels[i].price_ = ptr.price_
       THEN CHOOSE i \in 1..Len(levels) : levels[i].price_ = ptr.price_
       ELSE 0

DerefLevel(b, ptr) == LevelsOf(b, ptr.levels_)[LevelIdx(b, ptr)]

StoreLevel(b, ptr, level) ==
    WithLevels(b, ptr.levels_,
               [LevelsOf(b, ptr.levels_) EXCEPT ![LevelIdx(b, ptr)] = level])

EraseLevel(b, ptr) ==
    WithLevels(b, ptr.levels_, RemoveAt(LevelsOf(b, ptr.levels_), LevelIdx(b, ptr)))

AllLevels(b) ==
    {b.buy_levels_[i] : i \in 1..Len(b.buy_levels_)}
        \cup {b.sell_levels_[i] : i \in 1..Len(b.sell_levels_)}

AllOrders(b) ==
    UNION {{l.orders_[j] : j \in 1..Len(l.orders_)} : l \in AllLevels(b)}

\* The order a list iterator designates.
DerefOrder(b, it) == CHOOSE o \in AllOrders(b) : o.iterator_ = it

\* Allocation of a list node: the lowest address not in use.
NewNode(b) ==
    SetMin({n \in 1..(Cardinality(AllOrders(b)) + 1) :
                \A o \in AllOrders(b) : o.iterator_ # n})

\* An erase that removes nothing.
MapErase_never(m, k) == m

MapErase(m, k) == [x \in (DOMAIN m) \ {k} |-> m[x]]

\* An emplace that never inserts.
MapEmplace_never(m, k, v) == m

\* std::unordered_map::emplace: no effect when the key is present.
MapEmplace(m, k, v) ==
    IF k \in DOMAIN m THEN m
    ELSE [x \in (DOMAIN m) \cup {k} |-> IF x = k THEN v ELSE m[x]]

\* Book::add without the check for a live id.
Book_add_no_duplicate_check(b, side, order_id, qty, price) ==
    IF side = "Invalid" THEN b
    ELSE
        LET levels == LevelsOf(b, side)
            level_iter == lower_bound(levels, price)
            found == level_iter <= Len(levels) /\ levels[level_iter].price_ = price
            levels1 == IF found THEN levels
                       ELSE InsertAt(levels, level_iter,
                                     [Level(price) EXCEPT !.levels_ = side])
            level == Level_add(levels1[level_iter], order_id, qty, NewNode(b))
            b1 == WithLevels(b, side, [levels1 EXCEPT ![level_iter] = level])
        IN [b1 EXCEPT !.orders_by_id_ =
                MapEmplace(@, order_id, level.orders_[Len(level.orders_)].iterator_)]

\* Book::add(order_id, qty, price, levels)
Book_add(b, side, order_id, qty, price) ==
    IF side = "Invalid" THEN b
    ELSE IF order_id \in DOMAIN b.orders_by_id_ THEN b
    ELSE
        LET levels == LevelsOf(b, side)
            level_iter == lower_bound(levels, price)
            found == level_iter <= Len(levels) /\ levels[level_iter].price_ = price
            levels1 == IF found THEN levels
                       ELSE InsertAt(levels, level_iter,
                                     [Level(price) EXCEPT !.levels_ = side])
            level == Level_add(levels1[level_iter], order_id, qty, NewNode(b))
            b1 == WithLevels(b, side, [levels1 EXCEPT ![level_iter] = level])
        IN [b1 EXCEPT !.orders_by_id_ =
                MapEmplace(@, order_id, level.orders_[Len(level.orders_)].iterator_)]

\* Book::cancel that only cancels an order alone in its level.
Book_cancel_last_only(b, order_id) ==
    IF order_id \notin DOMAIN b.orders_by_id_ THEN b
    ELSE
        LET order == DerefOrder(b, b.orders_by_id_[order_id])
            level == Level_cancel(DerefLevel(b, order.level_), order)
        IN IF level.orders_ = <<>>
           THEN [EraseLevel(b, LevelPtr(level))
                    EXCEPT !.orders_by_id_ = MapErase(@, order_id)]
           ELSE b

\* Book::cancel without orders_by_id_.erase(iter).
Book_cancel_keeps_id(b, order_id) ==
    IF order_id \notin DOMAIN b.orders_by_id_ THEN b
    ELSE
        LET order == DerefOrder(b, b.orders_by_id_[order_id])
            level == Level_cancel(DerefLevel(b, order.level_), order)
        IN IF level.orders_ = <<>>
           THEN EraseLevel(b, LevelPtr(level))
           ELSE StoreLevel(b, order.level_, level)

\* Book::cancel without the erasure of a level that became empty.
Book_cancel_keeps_level(b, order_id) ==
    IF order_id \notin DOMAIN b.orders_by_id_ THEN b
    ELSE
        LET order == DerefOrder(b, b.orders_by_id_[order_id])
            level == Level_cancel(DerefLevel(b, order.level_), order)
            b1 == StoreLevel(b, order.level_, level)
        IN [b1 EXCEPT !.orders_by_id_ = MapErase(@, order_id)]

\* Book::cancel
Book_cancel(b, order_id) ==
    IF order_id \notin DOMAIN b.orders_by_id_ THEN b
    ELSE
        LET order == DerefOrder(b, b.orders_by_id_[order_id])
            level == Level_cancel(DerefLevel(b, order.level_), order)
            b1 == IF level.orders_ = <<>>
                  THEN EraseLevel(b, LevelPtr(level))
                  ELSE StoreLevel(b, order.level_, level)
        IN [b1 EXCEPT !.orders_by_id_ = MapErase(@, order_id)]

\* Book::clear without orders_by_id_.clear().
Book_clear_keeps_ids(b) == [EmptyBook EXCEPT !.orders_by_id_ = b.orders_by_id_]

\* Book::clear
Book_clear(b) == EmptyBook

\* Book::modify without the early return of the no-change case.
Book_modify_always_repost(b, side, order_id, qty, price) ==
    IF side = "Invalid" THEN b
    ELSE IF order_id \notin DOMAIN b.orders_by_id_ THEN b
    ELSE
        LET order == DerefOrder(b, b.orders_by_id_[order_id])
            level == DerefLevel(b, order.level_)
        IN IF level.levels_ = side /\ level.price_ = price
           THEN StoreLevel(b, order.level_, Level_modify(level, order, qty))
           ELSE
                LET levels == LevelsOf(b, side)
                    level_iter == lower_bound(levels, price)
                    found == level_iter <= Len(levels)
                                /\ levels[level_iter].price_ = price
                    levels1 == IF found THEN levels
                               ELSE InsertAt(levels, level_iter, Level(price))
                    new_level0 == [levels1[level_iter] EXCEPT !.levels_ = side]
                    \* splice into the new list, order.level_, new_level.qty_,
                    \* and at the end order.qty_
                    new_level ==
                        [new_level0 EXCEPT
                            !.orders_ = Append(@, [order EXCEPT
                                                    !.level_ = LevelPtr(new_level0),
                                                    !.qty_ = qty]),
                            !.qty_ = QtyPlus(@, qty)]
                    b1 == WithLevels(b, side, [levels1 EXCEPT ![level_iter] = new_level])
                    old_orders == ListErase(level.orders_, order.iterator_)
                IN IF old_orders = <<>>
                   THEN EraseLevel(b1, LevelPtr(level))
                   ELSE StoreLevel(b1, LevelPtr(level),
                                   [level EXCEPT !.orders_ = old_orders,
                                                 !.qty_ = QtyMinus(@, order.qty_)])

\* Book::modify(order_id, qty, price, levels)
Book_modify(b, side, order_id, qty, price) ==
    IF side = "Invalid" THEN b
    ELSE IF order_id \notin DOMAIN b.orders_by_id_ THEN b
    ELSE
        LET order == DerefOrder(b, b.orders_by_id_[order_id])
            level == DerefLevel(b, order.level_)
        IN IF level.levels_ = side /\ level.price_ = price
           THEN IF qty = order.qty_ THEN b
                ELSE StoreLevel(b, order.level_, Level_modify(level, order, qty))
           ELSE
                LET levels == LevelsOf(b, side)
                    level_iter == lower_bound(levels, price)
                    found == level_iter <= Len(levels)
                                /\ levels[level_iter].price_ = price
                    levels1 == IF found THEN levels
                               ELSE InsertAt(levels, level_iter, Level(price))
                    new_level0 == [levels1[level_iter] EXCEPT !.levels_ = side]
                    \* splice into the new list, order.level_, new_level.qty_,
                    \* and at the end order.qty_
                    new_level ==
                        [new_level0 EXCEPT
                            !.orders_ = Append(@, [order EXCEPT
                                                    !.level_ = LevelPtr(new_level0),
                                                    !.qty_ = qty]),
                            !.qty_ = QtyPlus(@, qty)]
                    b1 == WithLevels(b, side, [levels1 EXCEPT ![level_iter] = new_level])
                    old_orders == ListErase(level.orders_, order.iterator_)
                IN IF old_orders = <<>>
                   THEN EraseLevel(b1, LevelPtr(level))
                   ELSE StoreLevel(b1, LevelPtr(level),
                                   [level EXCEPT !.orders_ = old_orders,
                                                 !.qty_ = QtyMinus(@, order.qty_)])

\* match_predicate with strict comparisons: equal prices do not match.
match_predicate_strict(side, order_price, level_price) ==
    IF side = "Buy" THEN order_price > level_price ELSE order_price < level_price

\* match_predicate with the two lambdas exchanged.
match_predicate_swapped(side, order_price, level_price) ==
    IF side = "Buy" THEN order_price <= level_price ELSE order_price >= level_price

\* The two lambdas Book::match passes as match_predicate.
match_predicate(side, order_price, level_price) ==
    IF side = "Buy" THEN order_price >= level_price ELSE order_price <= level_price

Trade(passive_price, passive_order, aggressive_price, aggressive_order) ==
    [passive_price |-> passive_price, passive_order |-> passive_order,
     aggressive_price |-> aggressive_price, aggressive_order |-> aggressive_order]

\* The inner loop without the self-match check.
RECURSIVE match_orders_no_self_check(_, _, _, _, _, _)
match_orders_no_self_check(level, j, order_id, price, trades, leaves_qty) ==
    IF j > Len(level.orders_)
    THEN [trades |-> trades, leaves_qty |-> leaves_qty, done |-> FALSE]
    ELSE
        LET order == level.orders_[j]
            matched_qty == Min2(leaves_qty, order.qty_)
            trades1 == Append(trades,
                          Trade(level.price_, order, price,
                                Order(order_id, matched_qty)))
            leaves1 == QtyMinus(leaves_qty, matched_qty)
        IN IF leaves1 = 0
           THEN [trades |-> trades1, leaves_qty |-> leaves1, done |-> TRUE]
           ELSE match_orders_no_self_check(level, j + 1, order_id, price,
                                           trades1, leaves1)

\* Inner loop of the Book::match template over level.orders(), from the
\* j-th order on; done means the function has returned (leaves_qty is zero).
RECURSIVE match_orders(_, _, _, _, _, _)
match_orders(level, j, order_id, price, trades, leaves_qty) ==
    IF j > Len(level.orders_)
    THEN [trades |-> trades, leaves_qty |-> leaves_qty, done |-> FALSE]
    ELSE
        LET order == level.orders_[j]
        IN IF order_id = order.order_id_
           THEN match_orders(level, j + 1, order_id, price, trades, leaves_qty)
           ELSE
                LET matched_qty == Min2(leaves_qty, order.qty_)
                    trades1 == Append(trades,
                                  Trade(level.price_, order, price,
                                        Order(order_id, matched_qty)))
                    leaves1 == QtyMinus(leaves_qty, matched_qty)
                IN IF leaves1 = 0
                   THEN [trades |-> trades1, leaves_qty |-> leaves1, done |-> TRUE]
                   ELSE match_orders(level, j + 1, order_id, price, trades1, leaves1)

\* The outer loop leaving after the first level.
match_levels_best_only(side, levels, i, order_id, price, trades, leaves_qty) ==
    IF i > Len(levels)
    THEN [trades |-> trades, leaves_qty |-> leaves_qty]
    ELSE IF ~match_predicate(side, price, levels[i].price_)
    THEN [trades |-> trades, leaves_qty |-> leaves_qty]
    ELSE
        LET r == match_orders(levels[i], 1, order_id, price, trades, leaves_qty)
        IN [trades |-> r.trades, leaves_qty |-> r.leaves_qty]

\* Outer loop of the Book::match template over [levels_begin, levels_end).
RECURSIVE match_levels(_, _, _, _, _, _, _)
match_levels(side, levels, i, order_id, price, trades, leaves_qty) ==
    IF i > Len(levels)
    THEN [trades |-> trades, leaves_qty |-> leaves_qty]
    ELSE IF ~match_predicate(side, price, levels[i].price_)
    THEN [trades |-> trades, leaves_qty |-> leaves_qty]
    ELSE
        LET r == match_orders(levels[i], 1, order_id, price, trades, leaves_qty)
        IN IF r.done
           THEN [trades |-> r.trades, leaves_qty |-> r.leaves_qty]
           ELSE match_levels(side, levels, i + 1, order_id, price,
                             r.trades, r.leaves_qty)

\* fill_orders that leaves a partially filled order's quantity alone.
RECURSIVE fill_orders_no_partial(_, _, _)
fill_orders_no_partial(b, trades, i) ==
    IF i > Len(trades)
    THEN [book |-> b, trades |-> trades]
    ELSE
        LET trade == trades[i]
            leaves_qty == QtyMinus(trade.passive_order.qty_, trade.aggressive_order.qty_)
        IN IF leaves_qty = 0
           THEN fill_orders_no_partial(Book_cancel(b, trade.passive_order.order_id_),
                                       trades, i + 1)
           ELSE fill_orders_no_partial(b,
                    [trades EXCEPT ![i].passive_order.qty_ = trade.aggressive_order.qty_],
                    i + 1)

\* fill_orders calling Level::modify, which moves the order to the tail.
RECURSIVE fill_orders_requeues(_, _, _)
fill_orders_requeues(b, trades, i) ==
    IF i > Len(trades)
    THEN [book |-> b, trades |-> trades]
    ELSE
        LET trade == trades[i]
            leaves_qty == QtyMinus(trade.passive_order.qty_, trade.aggressive_order.qty_)
        IN IF leaves_qty = 0
           THEN fill_orders_requeues(Book_cancel(b, trade.passive_order.order_id_),
                                     trades, i + 1)
           ELSE
                LET level == DerefLevel(b, trade.passive_order.level_)
                    order == DerefOrder(b, trade.passive_order.iterator_)
                    b1 == StoreLevel(b, trade.passive_order.level_,
                                     Level_modify(level, order, leaves_qty))
                    trades1 == [trades EXCEPT ![i].passive_order.qty_ =
                                                trade.aggressive_order.qty_]
                IN fill_orders_requeues(b1, trades1, i + 1)

\* fill_orders that keeps the passive order's quantity in the trade record.
RECURSIVE fill_orders_keeps_record(_, _, _)
fill_orders_keeps_record(b, trades, i) ==
    IF i > Len(trades)
    THEN [book |-> b, trades |-> trades]
    ELSE
        LET trade == trades[i]
            leaves_qty == QtyMinus(trade.passive_order.qty_, trade.aggressive_order.qty_)
        IN IF leaves_qty = 0
           THEN fill_orders_keeps_record(Book_cancel(b, trade.passive_order.order_id_),
                                         trades, i + 1)
           ELSE
                LET level == DerefLevel(b, trade.passive_order.level_)
                    order == DerefOrder(b, trade.passive_order.iterator_)
                    b1 == StoreLevel(b, trade.passive_order.level_,
                                     Level_modify_qty(level, order, leaves_qty))
                IN fill_orders_keeps_record(b1, trades, i + 1)

\* Book::fill_orders, from the i-th trade on.
RECURSIVE fill_orders(_, _, _)
fill_orders(b, trades, i) ==
    IF i > Len(trades)
    THEN [book |-> b, trades |-> trades]
    ELSE
        LET trade == trades[i]
            leaves_qty == QtyMinus(trade.passive_order.qty_, trade.aggressive_order.qty_)
        IN IF leaves_qty = 0
           THEN fill_orders(Book_cancel(b, trade.passive_order.order_id_), trades, i + 1)
           ELSE
                LET level == DerefLevel(b, trade.passive_order.level_)
                    order == DerefOrder(b, trade.passive_order.iterator_)
                    b1 == StoreLevel(b, trade.passive_order.level_,
                                     Level_modify_qty(level, order, leaves_qty))
                    trades1 == [trades EXCEPT ![i].passive_order.qty_ =
                                                trade.aggressive_order.qty_]
                IN fill_orders(b1, trades1, i + 1)

\* Book::match resting what is left of the aggressor.
Book_match_rests(b, side, order_id, qty, price, trades) ==
    LET r == IF side = "Buy"
             THEN match_levels(side, Reverse(b.sell_levels_), 1, order_id, price,
                               trades, qty)
             ELSE IF side = "Sell"
             THEN match_levels(side, b.buy_levels_, 1, order_id, price, trades, qty)
             ELSE [trades |-> trades, leaves_qty |-> qty]
        f == fill_orders(b, r.trades, 1)
    IN [book |-> IF r.leaves_qty = 0 THEN f.book
                 ELSE Book_add(f.book, side, order_id, r.leaves_qty, price),
        trades |-> f.trades, leaves_qty |-> r.leaves_qty]

\* Book::match walking the sell levels from begin() instead of crbegin().
Book_match_forward(b, side, order_id, qty, price, trades) ==
    LET r == IF side = "Buy"
             THEN match_levels(side, b.sell_levels_, 1, order_id, price, trades, qty)
             ELSE IF side = "Sell"
             THEN match_levels(side, b.buy_levels_, 1, order_id, price, trades, qty)
             ELSE [trades |-> trades, leaves_qty |-> qty]
        f == fill_orders(b, r.trades, 1)
    IN [book |-> f.book, trades |-> f.trades, leaves_qty |-> r.leaves_qty]

\* Book::match(side, order_id, qty, price, trades)
Book_match(b, side, order_id, qty, price, trades) ==
    LET r == IF side = "Buy"
             THEN match_levels(side, Reverse(b.sell_levels_), 1, order_id, price,
                               trades, qty)
             ELSE IF side = "Sell"
             THEN match_levels(side, b.buy_levels_, 1, order_id, price, trades, qty)
             ELSE [trades |-> trades, leaves_qty |-> qty]
        f == fill_orders(b, r.trades, 1)
    IN [book |-> f.book, trades |-> f.trades, leaves_qty |-> r.leaves_qty]

(***************************************************************************)
(* MatchingEngine                                                          *)
(***************************************************************************)
\* handle_add resting the submitted quantity instead of the leaves.
handle_add_full_qty(b, side, msg) ==
    LET m == Book_match(b, side, msg.order_id, msg.qty, msg.price, <<>>)
        book1 == IF m.leaves_qty = 0 THEN m.book
                 ELSE IF msg.tif = "GFD"
                 THEN Book_add(m.book, side, msg.order_id, msg.qty, msg.price)
                 ELSE m.book
    IN [book |-> book1, trades |-> m.trades, leaves_qty |-> m.leaves_qty,
        mid |-> m.book]

\* handle_add without the switch on the tif.
handle_add_ignores_tif(b, side, msg) ==
    LET m == Book_match(b, side, msg.order_id, msg.qty, msg.price, <<>>)
        book1 == IF m.leaves_qty = 0 THEN m.book
                 ELSE Book_add(m.book, side, msg.order_id, m.leaves_qty, msg.price)
    IN [book |-> book1, trades |-> m.trades, leaves_qty |-> m.leaves_qty,
        mid |-> m.book]

\* MatchingEngine::handle_add; mid is the book Book::match returned.
handle_add(b, side, msg) ==
    LET m == Book_match(b, side, msg.order_id, msg.qty, msg.price, <<>>)
        book1 == IF m.leaves_qty = 0 THEN m.book
                 ELSE IF msg.tif = "GFD"
                 THEN Book_add(m.book, side, msg.order_id, m.leaves_qty, msg.price)
                 ELSE m.book
    IN [book |-> book1, trades |-> m.trades, leaves_qty |-> m.leaves_qty,
        mid |-> m.book]

\* handle(ModifyOrder) reposting the submitted quantity instead of the leaves.
handle_ModifyOrder_full_qty(b, msg) ==
    LET m == Book_match(b, msg.side, msg.order_id, msg.qty, msg.price, <<>>)
        book1 == IF m.leaves_qty = 0
                 THEN Book_cancel(m.book, msg.order_id)
                 ELSE Book_modify(m.book, msg.side, msg.order_id, msg.qty, msg.price)
    IN [book |-> book1, trades |-> m.trades, leaves_qty |-> m.leaves_qty,
        mid |-> m.book]

\* handle(ModifyOrder) returning on a full fill without the cancel.
handle_ModifyOrder_no_cancel(b, msg) ==
    LET m == Book_match(b, msg.side, msg.order_id, msg.qty, msg.price, <<>>)
        book1 == IF m.leaves_qty = 0
                 THEN m.book
                 ELSE Book_modify(m.book, msg.side, msg.order_id, m.leaves_qty,
                                  msg.price)
    IN [book |-> book1, trades |-> m.trades, leaves_qty |-> m.leaves_qty,
        mid |-> m.book]

\* MatchingEngine::handle(ModifyOrder)
handle_ModifyOrder(b, msg) ==
    LET m == Book_match(b, msg.side, msg.order_id, msg.qty, msg.price, <<>>)
        book1 == IF m.leaves_qty = 0
                 THEN Book_cancel(m.book, msg.order_id)
                 ELSE Book_modify(m.book, msg.side, msg.order_id, m.leaves_qty,
                                  msg.price)
    IN [book |-> book1, trades |-> m.trades, leaves_qty |-> m.leaves_qty,
        mid |-> m.book]

(***************************************************************************)
(* Output                                                                  *)
(***************************************************************************)
\* operator<<(std::ostream &, Trade const &)
TradeLine(trade) ==
    <<"TRADE", trade.passive_order.order_id_, trade.passive_price,
      trade.passive_order.qty_, trade.aggressive_order.order_id_,
      trade.aggressive_price, trade.aggressive_order.qty_>>

\* operator<<(std::ostream &, Trades const &)
TradeLines(trades) == [i \in 1..Len(trades) |-> TradeLine(trades[i])]

\* A level line with the two fields exchanged.
LevelLine_qty_first(level) == <<level.qty_, level.price_>>

\* operator<<(std::ostream &, Level const &)
LevelLine(level) == <<level.price_, level.qty_>>

\* A snapshot that walks the sell levels backwards, lowest price first.
BookLines_sells_ascending(b) ==
    <<<<"SELL:">>>>
        \o [i \in 1..Len(b.sell_levels_) |->
                LevelLine(b.sell_levels_[Len(b.sell_levels_) + 1 - i])]
        \o <<<<"BUY:">>>> \o [i \in 1..Len(b.buy_levels_) |-> LevelLine(b.buy_levels_[i])]

\* operator<<(std::ostream &, Book const &)
BookLines(b) ==
    <<<<"SELL:">>>> \o [i \in 1..Len(b.sell_levels_) |-> LevelLine(b.sell_levels_[i])]
        \o <<<<"BUY:">>>> \o [i \in 1..Len(b.buy_levels_) |-> LevelLine(b.buy_levels_[i])]

(***************************************************************************)
(* State: the Book, the engine's trade buffer, what the last command       *)
(* wrote, and a record of the last command (the message, the book before   *)
(* it, the book Book::match left, and the leaves quantity it returned).    *)
(* fresh is a second engine, constructed empty at the moment of the last   *)
(* CLEAR and fed the commands read since, each one when the first engine's *)
(* handler has returned; erased tells whether that CLEAR found orders in   *)
(* the book.  failbit is the failbit of the input stream.                  *)
(***************************************************************************)
VARIABLES buy_levels_, sell_levels_, orders_by_id_, trades_, output,
          last, pre, mid, leaves_qty, ncmds, nids, fresh, failbit

(***************************************************************************)
(* The state of main() with --run-threads: the deque of the task queue     *)
(* (a task is the message its closure captured), the flag                  *)
(* is_producer_done, where the producer thread and the consumer thread     *)
(* are, the message the producer has decoded and not pushed yet, the task  *)
(* the consumer has popped, and two histories: the valid messages the      *)
(* producer decoded and the messages whose task the consumer has run on    *)
(* the engine.  written is what the tasks have written to std::cout.       *)
(***************************************************************************)
VARIABLES queue_, is_producer_done, producer, consumer, msg_, task,
          decoded, applied, written

tvars == <<queue_, is_producer_done, producer, consumer, msg_, task,
           decoded, applied, written>>

vars == <<buy_levels_, sell_levels_, orders_by_id_, trades_, output,
          last, pre, mid, leaves_qty, ncmds, nids, fresh, failbit, tvars>>

book == [buy_levels_ |-> buy_levels_, sell_levels_ |-> sell_levels_,
         orders_by_id_ |-> orders_by_id_]

Msg(type, side, tif, order_id, price, qty) ==
    [type |-> type, side |-> side, tif |-> tif, order_id |-> order_id,
     price |-> price, qty |-> qty, valid |-> TRUE, fail |-> FALSE]

\* A price or quantity token that is not a decimal integer.
NotANumber == -1

\* operator>>(std::istream &, BuyOrder &), operator>>(std::istream &,
\* SellOrder &): the fields are extracted in the order tif, price, qty,
\* order_id.  The extraction of a number from a token that is not one stores
\* zero and sets the failbit of the stream, and no later extraction reads
\* anything: the fields after it keep their default values.
ReadAddOrder(type, side, tif, price, qty, order_id) ==
    IF price = NotANumber
    THEN [Msg(type, side, tif, 0, 0, 0) EXCEPT !.fail = TRUE]
    ELSE IF qty = NotANumber
    THEN [Msg(type, side, tif, 0, price, 0) EXCEPT !.fail = TRUE]
    ELSE Msg(type, side, tif, order_id, price, qty)

\* operator>>(std::istream &, ModifyOrder &): the fields are extracted in the
\* order order_id, side, price, qty.
ReadModifyOrder(order_id, side, price, qty) ==
    IF price = NotANumber
    THEN [Msg("MODIFY", side, "Invalid", order_id, 0, 0) EXCEPT !.fail = TRUE]
    ELSE IF qty = NotANumber
    THEN [Msg("MODIFY", side, "Invalid", order_id, price, 0) EXCEPT !.fail = TRUE]
    ELSE Msg("MODIFY", side, "Invalid", order_id, price, qty)

\* The decoded messages of the explored streams: every message with a valid
\* tif or side and a price and quantity within the bounds, and for each
\* field that is_invalid() looks at, messages where that field alone is bad
\* (an unknown token, a zero price, a zero quantity, a price or a quantity
\* that is not a number).
AddFields ==
    ({"GFD", "IOC"} \X Prices \X Qtys)
        \cup {<<"Invalid", 1, 1>>, <<"GFD", 0, 1>>, <<"GFD", 1, 0>>,
              <<"GFD", NotANumber, 1>>, <<"GFD", 1, NotANumber>>}

ModifyFields ==
    ({"Buy", "Sell"} \X Prices \X Qtys)
        \cup {<<"Invalid", 1, 1>>, <<"Buy", 0, 1>>, <<"Buy", 1, 0>>,
              <<"Buy", NotANumber, 1>>, <<"Buy", 1, NotANumber>>}

BuyOrders ==
    {ReadAddOrder("BUY", "Buy", f[1], f[2], f[3], order_id) :
        f \in AddFields, order_id \in OrderIDs}

SellOrders ==
    {ReadAddOrder("SELL", "Sell", f[1], f[2], f[3], order_id) :
        f \in AddFields, order_id \in OrderIDs}

ModifyOrders ==
    {ReadModifyOrder(order_id, f[1], f[2], f[3]) :
        f \in ModifyFields, order_id \in OrderIDs}

NoMsg == Msg("NONE", "Invalid", "Invalid", 0, 0, 0)

\* A MatchingEngine and its Book as main() constructs them, with what its
\* CommandProcessor has written for the last command.
NewEngine(running, erased) ==
    [running |-> running, erased |-> erased, book |-> EmptyBook,
     trades_ |-> <<>>, output |-> <<>>]

\* CommandProcessor::handle of a BuyOrder, SellOrder or ModifyOrder on the
\* engine e, r being what the engine's handler returns: the trades are
\* written.
Written(e, r) ==
    [e EXCEPT !.book = r.book, !.trades_ = r.trades, !.output = TradeLines(r.trades)]

\* CommandProcessor_T::handle<Msg_T> and CommandProcessor::handle(msg) of the
\* second engine for the message msg of the first one's last command; a
\* CLEAR constructs the second engine anew.
RunFresh(msg) ==
    IF msg.type = "CLEAR" THEN NewEngine(TRUE, pre # EmptyBook)
    ELSE IF ~fresh.running THEN fresh
    ELSE IF ~msg.valid THEN [fresh EXCEPT !.output = <<>>]
    ELSE IF msg.type \in {"BUY", "SELL"}
    THEN Written(fresh, handle_add(fresh.book, msg.side, msg))
    ELSE IF msg.type = "MODIFY"
    THEN Written(fresh, handle_ModifyOrder(fresh.book, msg))
    ELSE IF msg.type = "CANCEL"
    THEN [fresh EXCEPT !.book = Book_cancel(fresh.book, msg.order_id),
                       !.output = <<>>]
    ELSE IF msg.type = "PRINT"
    THEN [fresh EXCEPT !.output = BookLines(fresh.book)]
    ELSE fresh

Init ==
    /\ buy_levels_ = <<>>
    /\ sell_levels_ = <<>>
    /\ orders_by_id_ = <<>>
    /\ trades_ = <<>>
    /\ output = <<>>
    /\ last = NoMsg
    /\ pre = EmptyBook
    /\ mid = EmptyBook
    /\ leaves_qty = 0
    /\ ncmds = 0
    /\ nids = 0
    /\ fresh = NewEngine(FALSE, FALSE)
    /\ failbit = FALSE
    /\ queue_ = <<>>
    /\ is_producer_done = FALSE
    /\ producer = "run"
    /\ consumer = "while"
    /\ msg_ = NoMsg
    /\ task = NoMsg
    /\ decoded = <<>>
    /\ applied = <<>>
    /\ written = <<>>

\* CommandProcessor_T::run reads one more command word from the stream; no
\* handler is running.  `is >> cmd` is false once the failbit is set, and
\* run() returns.
ReadCmd ==
    /\ last = NoMsg
    /\ ~failbit
    /\ ncmds < MaxCmds
    /\ ncmds' = ncmds + 1
    /\ UNCHANGED fresh
    /\ UNCHANGED tvars

\* The code only compares order ids for equality (and hashes them), so the
\* explored streams name their orders in order of first appearance: the
\* k-th distinct id of a stream is k, and nids counts the ids seen so far.
ReadId(order_id) ==
    /\ order_id <= nids + 1
    /\ nids' = IF order_id > nids THEN order_id ELSE nids

SetBook(b) ==
    /\ buy_levels_' = b.buy_levels_
    /\ sell_levels_' = b.sell_levels_
    /\ orders_by_id_' = b.orders_by_id_

\* CommandProcessor_T::handle<Msg_T>: an invalid message is thrown away
\* before it reaches the derived handler.  The
\* exception is caught in run(), which leaves the state of the stream as the
\* extraction left it.
Skip(msg) ==
    /\ UNCHANGED <<buy_levels_, sell_levels_, orders_by_id_, trades_>>
    /\ failbit' = msg.fail
    /\ output' = <<>>
    /\ last' = [msg EXCEPT !.valid = FALSE]
    /\ pre' = book
    /\ mid' = book
    /\ leaves_qty' = 0

\* A matching command whose engine does not clear trades_ first: the fills
\* are appended to the ones the buffer holds and all of them are written.
Matched_keeps_trades(msg, r) ==
    /\ SetBook(r.book)
    /\ UNCHANGED failbit
    /\ trades_' = trades_ \o r.trades
    /\ output' = TradeLines(trades_ \o r.trades)
    /\ last' = msg
    /\ pre' = book
    /\ mid' = r.mid
    /\ leaves_qty' = r.leaves_qty

\* What a matching command (BUY, SELL, MODIFY) leaves behind.
Matched(msg, r) ==
    /\ SetBook(r.book)
    /\ UNCHANGED failbit
    /\ trades_' = r.trades
    /\ output' = TradeLines(r.trades)
    /\ last' = msg
    /\ pre' = book
    /\ mid' = r.mid
    /\ leaves_qty' = r.leaves_qty

\* BUY <tif> <price> <qty> <id>: CommandProcessor::handle(BuyOrder)
BuyOrder ==
    /\ ReadCmd
    /\ \E msg \in BuyOrders :
        /\ ReadId(msg.order_id)
        /\ IF AddOrder_is_invalid(msg) THEN Skip(msg)
           ELSE Matched(msg, handle_add(book, "Buy", msg))

\* SELL <tif> <price> <qty> <id>: CommandProcessor::handle(SellOrder)
SellOrder ==
    /\ ReadCmd
    /\ \E msg \in SellOrders :
        /\ ReadId(msg.order_id)
        /\ IF AddOrder_is_invalid(msg) THEN Skip(msg)
           ELSE Matched(msg, handle_add(book, "Sell", msg))

\* MODIFY <id> <side> <price> <qty>: CommandProcessor::handle(ModifyOrder)
ModifyOrder ==
    /\ ReadCmd
    /\ \E msg \in ModifyOrders :
        /\ ReadId(msg.order_id)
        /\ IF ModifyOrder_is_invalid(msg) THEN Skip(msg)
           ELSE Matched(msg, handle_ModifyOrder(book, msg))

\* CANCEL <id>: CommandProcessor::handle(CancelOrder)
CancelOrder ==
    /\ ReadCmd
    /\ \E order_id \in OrderIDs :
        /\ ReadId(order_id)
        /\ SetBook(Book_cancel(book, order_id))
        /\ last' = Msg("CANCEL", "Invalid", "Invalid", order_id, 0, 0)
    /\ UNCHANGED <<trades_, failbit>>
    /\ output' = <<>>
    /\ pre' = book
    /\ mid' = book
    /\ leaves_qty' = 0

\* CLEAR: CommandProcessor::handle(ClearBook)
ClearBook ==
    /\ ReadCmd
    /\ UNCHANGED nids
    /\ SetBook(Book_clear(book))
    /\ last' = Msg("CLEAR", "Invalid", "Invalid", 0, 0, 0)
    /\ UNCHANGED <<trades_, failbit>>
    /\ output' = <<>>
    /\ pre' = book
    /\ mid' = book
    /\ leaves_qty' = 0

\* PRINT: CommandProcessor::handle(PrintBook)
PrintBook ==
    /\ ReadCmd
    /\ UNCHANGED nids
    /\ UNCHANGED <<buy_levels_, sell_levels_, orders_by_id_, trades_, failbit>>
    /\ output' = BookLines(book)
    /\ last' = Msg("PRINT", "Invalid", "Invalid", 0, 0, 0)
    /\ pre' = book
    /\ mid' = book
    /\ leaves_qty' = 0

\* The handler returns to the loop of CommandProcessor_T::run: its message
\* and its locals are gone, the book and the trade buffer stay.  The second
\* engine now handles the same message.
Return ==
    /\ last # NoMsg
    /\ last' = NoMsg
    /\ pre' = EmptyBook
    /\ mid' = EmptyBook
    /\ leaves_qty' = 0
    /\ output' = <<>>
    /\ fresh' = [RunFresh(last) EXCEPT !.output = <<>>]
    /\ UNCHANGED <<buy_levels_, sell_levels_, orders_by_id_, trades_, ncmds, nids,
                   failbit>>
    /\ UNCHANGED tvars

\* A command word that is none of the six verbs: CommandProcessor_T::handle
\* (cmd, is) throws before anything else is read, run() catches the
\* exception and goes on with the next token.
UnknownCommand ==
    /\ ReadCmd
    /\ UNCHANGED nids
    /\ Skip(Msg("UNKNOWN", "Invalid", "Invalid", 0, 0, 0))

Next ==
    \/ UnknownCommand
    \/ BuyOrder
    \/ SellOrder
    \/ ModifyOrder
    \/ CancelOrder
    \/ ClearBook
    \/ PrintBook
    \/ Return

Spec == Init /\ [][Next]_vars

(***************************************************************************)
(* The single-threaded program on streams whose orders have quantities at  *)
(* both ends of the range of Qty::value_type.                              *)
(***************************************************************************)
WideQtys == {1, QtyModulus - 1}

WideOrders ==
    {Msg(IF side = "Buy" THEN "BUY" ELSE "SELL", side, "GFD", order_id, price, qty) :
        side \in {"Buy", "Sell"}, order_id \in OrderIDs, price \in Prices,
        qty \in WideQtys}

\* BUY GFD <price> <qty> <id>, SELL GFD <price> <qty> <id>:
\* CommandProcessor::handle(BuyOrder), CommandProcessor::handle(SellOrder)
WideOrder ==
    /\ ReadCmd
    /\ \E msg \in WideOrders :
        /\ ReadId(msg.order_id)
        /\ Matched(msg, handle_add(book, msg.side, msg))

NextWide ==
    \/ WideOrder
    \/ CancelOrder
    \/ PrintBook
    \/ Return

SpecWide == Init /\ [][NextWide]_vars

(***************************************************************************)
(* main() with --run-threads: the producer thread decodes the stream with  *)
(* a QueueingCommandProcessor, which pushes one task per valid message;    *)
(* the consumer thread pops the tasks and runs them on the engine.         *)
(***************************************************************************)
MaxTasks == 2

\* std::deque: push_back, front, pop_front.
push_back(q, value) == Append(q, value)

front(q) == Head(q)

pop_front(q) == Tail(q)

\* The deque filled from the wrong end.
push_front(q, value) == <<value>> \o q

\* ThreadsafeQueue::push
push(q, value) == push_back(q, value)

\* What the single-threaded mode keeps of its last command; the threaded
\* mode has none of it.
svars == <<last, pre, mid, leaves_qty, fresh>>

\* The producer is in the loop of CommandProcessor_T::run and reads one more
\* command word.
ProducerReads ==
    /\ producer = "run"
    /\ ~failbit
    /\ ncmds < MaxTasks
    /\ ncmds' = ncmds + 1
    /\ UNCHANGED <<buy_levels_, sell_levels_, orders_by_id_, trades_, output>>
    /\ UNCHANGED svars
    /\ UNCHANGED <<queue_, is_producer_done, consumer, task, applied, written>>

\* The messages of the six verbs as the stream operators decode them.  The
\* explored streams of the threaded mode hold day orders of one lot (and the
\* messages the decoder drops): the queue treats every task alike, and these
\* suffice for tasks whose order shows in the book and in the trades.
Messages ==
    {m \in BuyOrders \cup SellOrders \cup ModifyOrders :
        m.qty <= 1 /\ m.tif # "IOC"}
        \cup {Msg("CANCEL", "Invalid", "Invalid", order_id, 0, 0) : order_id \in OrderIDs}
        \cup {Msg("PRINT", "Invalid", "Invalid", 0, 0, 0),
              Msg("CLEAR", "Invalid", "Invalid", 0, 0, 0)}

\* is_invalid() of the message msg, by its type.
is_invalid(msg) ==
    IF msg.type \in {"BUY", "SELL"} THEN AddOrder_is_invalid(msg)
    ELSE IF msg.type = "MODIFY" THEN ModifyOrder_is_invalid(msg)
    ELSE FALSE

\* CommandProcessor_T::handle<Msg_T> in the producer: the message is decoded
\* and is valid; the derived handler is about to push its task.
ProducerDecodes ==
    /\ ProducerReads
    /\ \E msg \in Messages :
        /\ ReadId(msg.order_id)
        /\ ~is_invalid(msg)
        /\ msg_' = msg
        /\ decoded' = Append(decoded, msg)
    /\ producer' = "handle"
    /\ UNCHANGED failbit

\* CommandProcessor_T::handle(cmd, is), handle<Msg_T> in the producer: an
\* unknown verb or an invalid message throws, run() catches, nothing is
\* pushed.
ProducerSkips ==
    /\ ProducerReads
    /\ \/ UNCHANGED <<nids, failbit>>
       \/ \E msg \in Messages :
            /\ ReadId(msg.order_id)
            /\ is_invalid(msg)
            /\ failbit' = msg.fail
    /\ UNCHANGED <<producer, msg_, decoded>>

\* QueueingCommandProcessor::handle(msg): ThreadsafeQueue::push under the
\* mutex.
ProducerPushes ==
    /\ producer = "handle"
    /\ queue_' = push(queue_, msg_)
    /\ msg_' = NoMsg
    /\ producer' = "run"
    /\ UNCHANGED <<buy_levels_, sell_levels_, orders_by_id_, trades_, output>>
    /\ UNCHANGED svars
    /\ UNCHANGED <<ncmds, nids, failbit>>
    /\ UNCHANGED <<is_producer_done, consumer, task, decoded, applied, written>>

\* `is >> cmd` is false (end of input, or the failbit is set): run() returns
\* and the producer stores the flag.
ProducerDone ==
    /\ producer = "run"
    /\ is_producer_done' = TRUE
    /\ producer' = "done"
    /\ UNCHANGED <<buy_levels_, sell_levels_, orders_by_id_, trades_, output>>
    /\ UNCHANGED svars
    /\ UNCHANGED <<ncmds, nids, failbit>>
    /\ UNCHANGED <<queue_, consumer, msg_, task, decoded, applied, written>>

\* What a consumer step that does not run a task leaves alone.
ConsumerFrame ==
    /\ UNCHANGED <<buy_levels_, sell_levels_, orders_by_id_, trades_, output>>
    /\ UNCHANGED svars
    /\ UNCHANGED <<ncmds, nids, failbit>>
    /\ UNCHANGED <<is_producer_done, producer, msg_, decoded, applied, written>>

\* while (not is_producer_done)
ConsumerTests ==
    /\ consumer = "while"
    /\ consumer' = IF is_producer_done THEN "try_pop" ELSE "wait_and_pop"
    /\ UNCHANGED <<queue_, task>>
    /\ ConsumerFrame

\* ThreadsafeQueue::wait_and_pop: the wait ends only when the deque is not
\* empty.
ConsumerWaitAndPop ==
    /\ consumer = "wait_and_pop"
    /\ queue_ # <<>>
    /\ task' = front(queue_)
    /\ queue_' = pop_front(queue_)
    /\ consumer' = "task"
    /\ ConsumerFrame

\* The second loop of the consumer left at once, whatever the queue holds.
ConsumerTryPop_gives_up ==
    /\ consumer = "try_pop"
    /\ consumer' = "done"
    /\ UNCHANGED <<queue_, task>>
    /\ ConsumerFrame

\* while (task_queue->try_pop(task)): ThreadsafeQueue::try_pop
ConsumerTryPop ==
    /\ consumer = "try_pop"
    /\ IF queue_ = <<>>
       THEN /\ consumer' = "done"
            /\ UNCHANGED <<queue_, task>>
       ELSE /\ task' = front(queue_)
            /\ queue_' = pop_front(queue_)
            /\ consumer' = "remaining_task"
    /\ ConsumerFrame

\* The engine as a record, and the closures the handlers of
\* QueueingCommandProcessor push, run on it.
Engine ==
    [running |-> TRUE, erased |-> FALSE, book |-> book, trades_ |-> trades_,
     output |-> output]

\* The closures with one that writes nothing for a PRINT.
RunTask_print_silent(e, msg) ==
    IF msg.type \in {"BUY", "SELL"}
    THEN Written(e, handle_add(e.book, msg.side, msg))
    ELSE IF msg.type = "MODIFY"
    THEN Written(e, handle_ModifyOrder(e.book, msg))
    ELSE IF msg.type = "CANCEL"
    THEN [e EXCEPT !.book = Book_cancel(e.book, msg.order_id), !.output = <<>>]
    ELSE IF msg.type = "CLEAR"
    THEN [e EXCEPT !.book = Book_clear(e.book), !.output = <<>>]
    ELSE [e EXCEPT !.output = <<>>]

RunTask(e, msg) ==
    IF msg.type \in {"BUY", "SELL"}
    THEN Written(e, handle_add(e.book, msg.side, msg))
    ELSE IF msg.type = "MODIFY"
    THEN Written(e, handle_ModifyOrder(e.book, msg))
    ELSE IF msg.type = "CANCEL"
    THEN [e EXCEPT !.book = Book_cancel(e.book, msg.order_id), !.output = <<>>]
    ELSE IF msg.type = "CLEAR"
    THEN [e EXCEPT !.book = Book_clear(e.book), !.output = <<>>]
    ELSE [e EXCEPT !.output = BookLines(e.book)]

\* task() in either loop of the consumer.
ConsumerRunsTask ==
    /\ consumer \in {"task", "remaining_task"}
    /\ consumer' = IF consumer = "task" THEN "while" ELSE "try_pop"
    /\ \E e \in {RunTask(Engine, task)} :
        /\ SetBook(e.book)
        /\ trades_' = e.trades_
        /\ output' = e.output
        /\ written' = written \o e.output
    /\ applied' = Append(applied, task)
    /\ task' = NoMsg
    /\ UNCHANGED svars
    /\ UNCHANGED <<ncmds, nids, failbit>>
    /\ UNCHANGED <<queue_, is_producer_done, producer, msg_, decoded>>

NextThreads ==
    \/ ProducerDecodes
    \/ ProducerSkips
    \/ ProducerPushes
    \/ ProducerDone
    \/ ConsumerTests
    \/ ConsumerWaitAndPop
    \/ ConsumerTryPop
    \/ ConsumerRunsTask

SpecThreads == Init /\ [][NextThreads]_vars

\* task() returns: the consumer goes back to the test of its loop.  Only
\* ConsumerRunsTask takes the consumer out of these two places.
TaskReturns ==
    /\ consumer \in {"task", "remaining_task"}
    /\ consumer' = IF consumer = "task" THEN "while" ELSE "try_pop"

\* The consumer is a thread of its own: a step of it that stays possible is
\* taken.  wait_and_pop waits with a predicate under the mutex that push
\* holds while it appends, so a push is not missed, and a wait on a queue
\* that is not empty ends.
SpecThreadsFair ==
    /\ SpecThreads
    /\ WF_consumer(ConsumerTests)
    /\ WF_consumer(ConsumerWaitAndPop)
    /\ WF_consumer(ConsumerTryPop)
    /\ WF_consumer(TaskReturns)

(***************************************************************************)
(* Vocabulary of the properties.  These definitions read a book by         *)
(* walking its two level sequences; they use neither the id map nor the    *)
(* back-links of the orders.                                               *)
(***************************************************************************)
Opposite(side) == IF side = "Buy" THEN "Sell" ELSE "Buy"

\* The orders resting in book b: side, price, position in the queue, id, qty.
Resting(b) ==
    LET OnSide(s, levels) ==
            UNION {LET level == levels[i]
                   IN {[side |-> s, price |-> level.price_, pos |-> j,
                        order_id |-> level.orders_[j].order_id_,
                        qty |-> level.orders_[j].qty_] :
                            j \in 1..Len(level.orders_)} :
                   i \in 1..Len(levels)}
    IN OnSide("Buy", b.buy_levels_) \cup OnSide("Sell", b.sell_levels_)

RestingIds(b) == {r.order_id : r \in Resting(b)}

IsResting(b, order_id) == order_id \in RestingIds(b)

TheOrder(b, order_id) == CHOOSE r \in Resting(b) : r.order_id = order_id

IsLive(b, order_id) == order_id \in DOMAIN b.orders_by_id_

\* The ids queued at (side, price), front first.
QueueIds(b, side, price) ==
    LET levels == LevelsOf(b, side)
        S == {i \in 1..Len(levels) : levels[i].price_ = price}
    IN IF S = {} THEN <<>>
       ELSE LET level == levels[CHOOSE i \in S : TRUE]
            IN [j \in 1..Len(level.orders_) |-> level.orders_[j].order_id_]

\* r1 is ahead of r2 for an aggressor on `side`: better price, or the same
\* price and earlier in the queue.
Ahead(side, r1, r2) ==
    \/ IF side = "Buy" THEN r1.price < r2.price ELSE r1.price > r2.price
    \/ r1.price = r2.price /\ r1.pos < r2.pos

Crosses(side, price, level_price) ==
    IF side = "Buy" THEN level_price <= price ELSE level_price >= price

\* The last command went through Book::match.
MatchCmd == last.valid /\ last.type \in {"BUY", "SELL", "MODIFY"}

AddCmd == last.valid /\ last.type \in {"BUY", "SELL"}

ModifyCmd == last.valid /\ last.type = "MODIFY"

FillQty(k) == trades_[k].aggressive_order.qty_

PassiveId(k) == trades_[k].passive_order.order_id_

RECURSIVE SumFills(_)
SumFills(k) == IF k = 0 THEN 0 ELSE SumFills(k - 1) + FillQty(k)

\* The orders the last command's match could have traded with.
Eligible ==
    {r \in Resting(pre) : /\ r.side = Opposite(last.side)
                          /\ r.order_id # last.order_id
                          /\ Crosses(last.side, last.price, r.price)}

\* The queue at (side, price) as <<id, quantity>> pairs, front first; empty
\* when the side has no level at that price.
QueueOf(b, side, price) ==
    LET levels == LevelsOf(b, side)
        S == {i \in 1..Len(levels) : levels[i].price_ = price}
    IN IF S = {} THEN <<>>
       ELSE LET level == levels[CHOOSE i \in S : TRUE]
            IN [j \in 1..Len(level.orders_) |->
                    <<level.orders_[j].order_id_, level.orders_[j].qty_>>]

\* The cached aggregate of the level at (side, price); 0 without a level.
AggregateOf(b, side, price) ==
    LET levels == LevelsOf(b, side)
        S == {i \in 1..Len(levels) : levels[i].price_ = price}
    IN IF S = {} THEN 0 ELSE levels[CHOOSE i \in S : TRUE].qty_

\* Is there a level at (side, price)?
HasLevel(b, side, price) ==
    \E i \in 1..Len(LevelsOf(b, side)) : LevelsOf(b, side)[i].price_ = price

\* A queue of <<id, quantity>> pairs without the entries of the given ids.
Without(queue, ids) ==
    LET Keep(e) == e[1] \notin ids
    IN SelectSeq(queue, Keep)

(***************************************************************************)
(* C1                                                                      *)
(***************************************************************************)
\* C1: after every command the book is uncrossed: when both sides hold a
\* level, every buy level price is strictly below every sell level price.
C1_Uncrossed ==
    \A i \in 1..Len(buy_levels_), j \in 1..Len(sell_levels_) :
        buy_levels_[i].price_ < sell_levels_[j].price_

\* A command traded and left orders resting on both sides.
C1_Witness ==
    /\ MatchCmd
    /\ trades_ # <<>>
    /\ buy_levels_ # <<>>
    /\ sell_levels_ # <<>>

(***************************************************************************)
(* C2                                                                      *)
(***************************************************************************)
\* C2: the trades of one command are in price-time priority with respect
\* to the book before the command: every passive order was resting, each
\* trade's passive order is ahead of the next one's (better price, or same
\* level and earlier in the queue), the passive prices are monotone (non-
\* decreasing for a buy aggressor, non-increasing for a sell aggressor), and
\* every order other than the aggressor's own that is ahead of a filled
\* order is filled too.
C2_PriceTimePriority ==
    MatchCmd =>
        /\ \A k \in 1..Len(trades_) : IsResting(pre, PassiveId(k))
        /\ \A k1, k2 \in 1..Len(trades_) :
            k1 < k2 =>
                /\ Ahead(last.side, TheOrder(pre, PassiveId(k1)),
                                    TheOrder(pre, PassiveId(k2)))
                /\ IF last.side = "Buy"
                   THEN trades_[k1].passive_price <= trades_[k2].passive_price
                   ELSE trades_[k1].passive_price >= trades_[k2].passive_price
        /\ \A k \in 1..Len(trades_) : \A r \in Resting(pre) :
            (/\ r.side = Opposite(last.side)
             /\ r.order_id # last.order_id
             /\ Ahead(last.side, r, TheOrder(pre, PassiveId(k))))
                => \E k0 \in 1..Len(trades_) : PassiveId(k0) = r.order_id

\* One command traded with two orders at two different prices.
C2_Witness ==
    /\ MatchCmd
    /\ Len(trades_) = 2
    /\ trades_[1].passive_price # trades_[2].passive_price

(***************************************************************************)
(* C3                                                                      *)
(***************************************************************************)
\* C3: no trade pairs an order id with itself; and when a MODIFY of a
\* resting order goes through the match, the book the match returns still
\* holds that order on its old side, at its old price, with its old
\* quantity, while the other orders at crossing prices are filled (trades
\* are emitted, and if the aggressor has leaves none of them remains).
C3_SelfMatchPrevention ==
    /\ \A k \in 1..Len(trades_) :
        trades_[k].passive_order.order_id_ # trades_[k].aggressive_order.order_id_
    /\ (ModifyCmd /\ IsResting(pre, last.order_id)) =>
        /\ IsResting(mid, last.order_id)
        /\ TheOrder(mid, last.order_id).side = TheOrder(pre, last.order_id).side
        /\ TheOrder(mid, last.order_id).price = TheOrder(pre, last.order_id).price
        /\ TheOrder(mid, last.order_id).qty = TheOrder(pre, last.order_id).qty
        /\ Eligible # {} =>
            /\ trades_ # <<>>
            /\ leaves_qty > 0 => \A r \in Eligible : ~IsResting(mid, r.order_id)

\* A MODIFY flipped a resting order to the opposite side at a price that
\* crosses its own old price, and traded with another order.
C3_Witness ==
    /\ ModifyCmd
    /\ IsResting(pre, last.order_id)
    /\ TheOrder(pre, last.order_id).side = Opposite(last.side)
    /\ Crosses(last.side, last.price, TheOrder(pre, last.order_id).price)
    /\ trades_ # <<>>

(***************************************************************************)
(* C4                                                                      *)
(***************************************************************************)
\* C4: every trade of a command with side S and price P has a passive
\* order that was resting on the side opposite to S before the command,
\* carries that order's level price as passive price, that price crosses P
\* (<= P for a buy, >= P for a sell), and carries P as aggressive price.
C4_TradePrices ==
    MatchCmd =>
        \A k \in 1..Len(trades_) :
            /\ IsResting(pre, PassiveId(k))
            /\ TheOrder(pre, PassiveId(k)).side = Opposite(last.side)
            /\ trades_[k].passive_price = TheOrder(pre, PassiveId(k)).price
            /\ Crosses(last.side, last.price, trades_[k].passive_price)
            /\ trades_[k].aggressive_price = last.price

\* A sell traded with a buy resting at a strictly higher price.
C4_Witness ==
    /\ MatchCmd
    /\ last.side = "Sell"
    /\ trades_ # <<>>
    /\ trades_[1].passive_price > last.price

(***************************************************************************)
(* C5                                                                      *)
(***************************************************************************)
\* C5: each fill is the minimum of the aggressor's leaves before the fill
\* and the passive order's quantity before the command; the fills plus the
\* returned leaves add up to the submitted quantity; a filled passive order
\* has lost exactly its fill, in the book the match returns and in the book
\* after the command (it is gone when nothing remains); an order that was
\* not filled has its old quantity in the book the match returns, and in
\* the book after the command too unless it is the command's own order.
C5_QuantityConservation ==
    MatchCmd =>
        LET before == Resting(pre)
            matched == {<<r.order_id, r.qty>> : r \in Resting(mid)}
            after == {<<r.order_id, r.qty>> : r \in Resting(book)}
            filled == {PassiveId(k) : k \in 1..Len(trades_)}
        IN  /\ \A k \in 1..Len(trades_) :
                \E r \in before :
                    /\ r.order_id = PassiveId(k)
                    /\ FillQty(k) = Min2(last.qty - SumFills(k - 1), r.qty)
                    /\ \A b \in {matched, after} :
                        IF r.qty = FillQty(k)
                        THEN \A o \in b : o[1] # r.order_id
                        ELSE /\ <<r.order_id, r.qty - FillQty(k)>> \in b
                             /\ \A o \in b : o[1] = r.order_id
                                                => o[2] = r.qty - FillQty(k)
            /\ SumFills(Len(trades_)) + leaves_qty = last.qty
            /\ \A r \in before :
                r.order_id \notin filled =>
                    /\ <<r.order_id, r.qty>> \in matched
                    /\ r.order_id # last.order_id => <<r.order_id, r.qty>> \in after

\* A command filled one order completely and a second one partially.
C5_Witness ==
    /\ MatchCmd
    /\ Len(trades_) = 2
    /\ ~IsResting(book, PassiveId(1))
    /\ IsResting(book, PassiveId(2))
    /\ leaves_qty = 0

(***************************************************************************)
(* C6                                                                      *)
(***************************************************************************)
\* C6: a GFD BUY/SELL whose id was not live: with leaves > 0 the id is
\* afterwards live and rests on the command's side at the command's price
\* with the leaves as quantity, last in that level's queue; with leaves = 0
\* the id is not live and the command's side is as it was.
C6_DayOrderRests ==
    (AddCmd /\ last.tif = "GFD" /\ ~IsLive(pre, last.order_id)) =>
        IF leaves_qty > 0
        THEN /\ IsLive(book, last.order_id)
             /\ IsResting(book, last.order_id)
             /\ TheOrder(book, last.order_id).side = last.side
             /\ TheOrder(book, last.order_id).price = last.price
             /\ TheOrder(book, last.order_id).qty = leaves_qty
             /\ TheOrder(book, last.order_id).pos
                    = Len(QueueIds(book, last.side, last.price))
             /\ Cardinality({r \in Resting(book) : r.order_id = last.order_id}) = 1
        ELSE /\ ~IsLive(book, last.order_id)
             /\ ~IsResting(book, last.order_id)
             /\ LevelsOf(book, last.side) = LevelsOf(pre, last.side)

\* A GFD order was partially filled and its residue rests.
C6_Witness ==
    /\ AddCmd
    /\ last.tif = "GFD"
    /\ ~IsLive(pre, last.order_id)
    /\ trades_ # <<>>
    /\ leaves_qty > 0
    /\ leaves_qty < last.qty
    /\ IsResting(book, last.order_id)

(***************************************************************************)
(* C7                                                                      *)
(***************************************************************************)
\* C7: an IOC BUY/SELL whose id was not live leaves the id not live and
\* the command's own side as it was, whatever the leaves; when no order
\* on the opposite side has a crossing price it emits no trade and leaves
\* the whole book as it was.
C7_IocNeverRests ==
    (AddCmd /\ last.tif = "IOC" /\ ~IsLive(pre, last.order_id)) =>
        /\ ~IsLive(book, last.order_id)
        /\ ~IsResting(book, last.order_id)
        /\ LevelsOf(book, last.side) = LevelsOf(pre, last.side)
        /\ Eligible = {} => (trades_ = <<>> /\ book = pre)

\* An IOC order was partially filled and its residue was dropped.
C7_Witness ==
    /\ AddCmd
    /\ last.tif = "IOC"
    /\ ~IsLive(pre, last.order_id)
    /\ trades_ # <<>>
    /\ leaves_qty > 0

(***************************************************************************)
(* C8                                                                      *)
(***************************************************************************)
\* C8: a MODIFY whose id is not live emits no trades and leaves the book
\* (both sides, every quantity and queue position, the id map) as it was.
C8_ModifyUnknownIsNoop ==
    (ModifyCmd /\ ~IsLive(pre, last.order_id)) =>
        (trades_ = <<>> /\ output = <<>> /\ book = pre)

(***************************************************************************)
(* C9                                                                      *)
(***************************************************************************)
\* C9: a BUY or SELL whose id is already live emits no trades and leaves
\* the book as it was.
C9_DuplicateAddIsNoop ==
    (AddCmd /\ IsLive(pre, last.order_id)) =>
        (trades_ = <<>> /\ output = <<>> /\ book = pre)

C11_SameLevelModifyRequeues ==
    (ModifyCmd /\ IsLive(pre, last.order_id)) =>
        LET o == TheOrder(pre, last.order_id)
        IN (o.side = last.side /\ o.price = last.price /\ o.qty # last.qty) =>
            /\ QueueOf(book, o.side, o.price)
                    = Without(QueueOf(pre, o.side, o.price), {last.order_id})
                        \o <<<<last.order_id, last.qty>>>>
            /\ AggregateOf(book, o.side, o.price)
                    = AggregateOf(pre, o.side, o.price) + last.qty - o.qty

\* The modified order was at the front of a queue of two, and its quantity
\* was raised.
C11_Witness ==
    /\ ModifyCmd
    /\ IsLive(pre, last.order_id)
    /\ TheOrder(pre, last.order_id).side = last.side
    /\ TheOrder(pre, last.order_id).price = last.price
    /\ TheOrder(pre, last.order_id).pos = 1
    /\ TheOrder(pre, last.order_id).qty < last.qty
    /\ Len(QueueOf(pre, last.side, last.price)) = 2
    /\ Len(QueueOf(book, last.side, last.price)) = 2

(***************************************************************************)
(* C12                                                                     *)
(***************************************************************************)
\* C12: a MODIFY of a live order to another side or price that the match
\* does not fill completely relocates the order: the id is live and rests
\* exactly once, at the tail of the queue at the new side and price with
\* the leaves as quantity; the queue at the old side and price holds the
\* other orders the match left there, the old level is gone when none is
\* left and otherwise its aggregate is the old one less the order's old
\* quantity.
C12_ModifyRelocates ==
    (ModifyCmd /\ IsLive(pre, last.order_id) /\ leaves_qty > 0) =>
        LET o == TheOrder(pre, last.order_id)
            others == Without(QueueOf(mid, o.side, o.price), {last.order_id})
            after == Resting(book)
        IN (o.side # last.side \/ o.price # last.price) =>
            /\ IsLive(book, last.order_id)
            /\ Cardinality({r \in after : r.order_id = last.order_id}) = 1
            /\ QueueOf(book, last.side, last.price)
                    = Without(QueueOf(mid, last.side, last.price), {last.order_id})
                        \o <<<<last.order_id, leaves_qty>>>>
            /\ QueueOf(book, o.side, o.price) = others
            /\ IF others = <<>>
               THEN ~HasLevel(book, o.side, o.price)
               ELSE /\ HasLevel(book, o.side, o.price)
                    /\ AggregateOf(book, o.side, o.price)
                            = AggregateOf(pre, o.side, o.price) - o.qty

\* The order changed sides and left another order behind at its old level.
C12_Witness ==
    /\ ModifyCmd
    /\ IsLive(pre, last.order_id)
    /\ leaves_qty > 0
    /\ TheOrder(pre, last.order_id).side # last.side
    /\ HasLevel(book, TheOrder(pre, last.order_id).side,
                TheOrder(pre, last.order_id).price)
    /\ TheOrder(book, last.order_id).side = last.side

(***************************************************************************)
(* C13                                                                     *)
(***************************************************************************)
\* C13: when the match of a MODIFY of a live order leaves nothing, the
\* original order is cancelled: the id is not live and rests on neither
\* side; the level it was in holds the other orders the match left there
\* and is gone when there is none.
C13_FilledModifyCancels ==
    (ModifyCmd /\ IsLive(pre, last.order_id) /\ leaves_qty = 0) =>
        LET o == TheOrder(pre, last.order_id)
            others == Without(QueueOf(mid, o.side, o.price), {last.order_id})
        IN  /\ ~IsLive(book, last.order_id)
            /\ ~IsResting(book, last.order_id)
            /\ QueueOf(book, o.side, o.price) = others
            /\ HasLevel(book, o.side, o.price) <=> others # <<>>

\* A modify to a crossing price was filled completely; its order had been
\* alone in its level.
C13_Witness ==
    /\ ModifyCmd
    /\ IsLive(pre, last.order_id)
    /\ leaves_qty = 0
    /\ Len(trades_) >= 1
    /\ Len(QueueOf(pre, TheOrder(pre, last.order_id).side,
                   TheOrder(pre, last.order_id).price)) = 1
    /\ ~HasLevel(book, TheOrder(pre, last.order_id).side,
                 TheOrder(pre, last.order_id).price)

(***************************************************************************)
(* C14                                                                     *)
(***************************************************************************)
\* C14: a match does not move a partially filled passive order: in the book
\* the match returns, the ids queued at each price of the matched side are
\* the ids queued there before, in the same order, without the ids that
\* were filled completely.
C14_PartialFillKeepsPlace ==
    MatchCmd =>
        LET side == Opposite(last.side)
            gone == {r.order_id : r \in
                        {x \in Resting(pre) :
                            /\ x.side = side
                            /\ \E k \in 1..Len(trades_) :
                                    /\ PassiveId(k) = x.order_id
                                    /\ FillQty(k) = x.qty}}
        IN \A i \in 1..Len(LevelsOf(pre, side)) :
            LET price == LevelsOf(pre, side)[i].price_
                kept == Without(QueueOf(pre, side, price), gone)
            IN QueueIds(mid, side, price) = [j \in 1..Len(kept) |-> kept[j][1]]

\* The last trade filled the order at the front of a queue in part, and
\* another order waits behind it.
C14_Witness ==
    /\ MatchCmd
    /\ Len(trades_) >= 1
    /\ IsResting(mid, PassiveId(Len(trades_)))
    /\ TheOrder(mid, PassiveId(Len(trades_))).pos = 1
    /\ Len(QueueIds(mid, Opposite(last.side),
                    TheOrder(mid, PassiveId(Len(trades_))).price)) >= 2

(***************************************************************************)
(* C15                                                                     *)
(***************************************************************************)
\* The places <<side, level index, queue index>> of the orders of a book.
Places(b) ==
    UNION {UNION {{<<s, i, j>> : j \in 1..Len(LevelsOf(b, s)[i].orders_)} :
                  i \in 1..Len(LevelsOf(b, s))} :
           s \in {"Buy", "Sell"}}

LevelAt(b, p) == LevelsOf(b, p[1])[p[2]]

OrderAt(b, p) == LevelAt(b, p).orders_[p[3]]

\* C15: after every command the ids of the id map are the ids of the
\* orders in the levels of the two sides; the handle of each id designates
\* one order, at one place, with that id, and that order's level back-link
\* designates the level that holds it; no id rests at two places.
C15_IndexCoherent ==
    LET places == Places(book)
    IN  /\ DOMAIN orders_by_id_ = {OrderAt(book, p).order_id_ : p \in places}
        /\ \A order_id \in DOMAIN orders_by_id_ :
            LET at == {p \in places :
                        OrderAt(book, p).iterator_ = orders_by_id_[order_id]}
            IN  /\ Cardinality(at) = 1
                /\ \A p \in at :
                    /\ OrderAt(book, p).order_id_ = order_id
                    /\ OrderAt(book, p).level_ = LevelPtr(LevelAt(book, p))
                    /\ LevelAt(book, p).levels_ = p[1]
        /\ \A p, q \in places :
            OrderAt(book, p).order_id_ = OrderAt(book, q).order_id_ => p = q

\* A modify has moved an order to the other side, where it joined a queue;
\* orders rest on both sides.
C15_Witness ==
    /\ ModifyCmd
    /\ IsLive(pre, last.order_id)
    /\ IsLive(book, last.order_id)
    /\ TheOrder(pre, last.order_id).side # TheOrder(book, last.order_id).side
    /\ Len(buy_levels_) >= 1
    /\ Len(sell_levels_) >= 1
    /\ Cardinality(DOMAIN orders_by_id_) = 2

(***************************************************************************)
(* C16                                                                     *)
(***************************************************************************)
RECURSIVE SumQty(_, _)
SumQty(orders, n) == IF n = 0 THEN 0 ELSE SumQty(orders, n - 1) + orders[n].qty_

C17_NoEmptyLevel ==
    /\ \A s \in {"Buy", "Sell"} :
        LET levels == LevelsOf(book, s)
        IN  /\ \A i \in 1..Len(levels) :
                /\ levels[i].orders_ # <<>>
                /\ levels[i].levels_ = s
            /\ \A i, j \in 1..Len(levels) :
                levels[i].price_ = levels[j].price_ => i = j
    /\ \A s \in {"Buy", "Sell"} :
        \A i \in 1..Len(LevelsOf(pre, s)) :
            LET price == LevelsOf(pre, s)[i].price_
            IN HasLevel(book, s, price) <=> QueueOf(book, s, price) # <<>>

\* A CANCEL removed the only order of a level; its side keeps another level.
C17_Witness ==
    /\ last.type = "CANCEL"
    /\ IsLive(pre, last.order_id)
    /\ ~HasLevel(book, TheOrder(pre, last.order_id).side,
                 TheOrder(pre, last.order_id).price)
    /\ Len(LevelsOf(book, TheOrder(pre, last.order_id).side)) = 1

(***************************************************************************)
(* C18                                                                     *)
(***************************************************************************)
\* C18: Book::add of an id that is not live followed by Book::cancel of that
\* id gives back the book Book::add started from (levels, queues,
\* quantities, id map), hence the same PRINT output; for a GFD BUY/SELL
\* that did not trade, that book is the book before the command.
C18_AddCancelRoundTrip ==
    (AddCmd /\ last.tif = "GFD" /\ ~IsLive(pre, last.order_id) /\ leaves_qty > 0) =>
        LET cancelled == Book_cancel(book, last.order_id)
        IN  /\ book = Book_add(mid, last.side, last.order_id, leaves_qty, last.price)
            /\ book # mid
            /\ cancelled = mid
            /\ BookLines(cancelled) = BookLines(mid)
            /\ trades_ = <<>> => (cancelled = pre /\ BookLines(cancelled) = BookLines(pre))

\* A GFD order that did not trade joined a queue that held an order, with
\* orders resting on the other side too.
C18_Witness ==
    /\ AddCmd
    /\ last.tif = "GFD"
    /\ ~IsLive(pre, last.order_id)
    /\ trades_ = <<>>
    /\ Len(QueueOf(book, last.side, last.price)) = 2
    /\ Len(LevelsOf(book, Opposite(last.side))) >= 1
    /\ TheOrder(book, last.order_id).pos = 2

(***************************************************************************)
(* C19                                                                     *)
(***************************************************************************)
\* C19: after CLEAR both sides and the id map are empty, and from then on
\* every command writes what it writes on an engine that started empty at
\* the CLEAR and read the same commands since: the same trade lines, the
\* same PRINT output, and a book that prints the same.
C19_ClearErasesHistory ==
    /\ last.type = "CLEAR" =>
        /\ buy_levels_ = <<>>
        /\ sell_levels_ = <<>>
        /\ DOMAIN orders_by_id_ = {}
    /\ (fresh.running /\ last # NoMsg) =>
        LET other == RunFresh(last)
        IN  /\ output = other.output
            /\ BookLines(book) = BookLines(other.book)
            /\ DOMAIN orders_by_id_ = DOMAIN other.book.orders_by_id_

\* A CLEAR erased a book that held order 1, the only id used so far; the
\* next command, a GFD order with id 1 again, rests.
C19_Witness ==
    /\ fresh.running
    /\ fresh.erased
    /\ AddCmd
    /\ last.tif = "GFD"
    /\ last.order_id = 1
    /\ nids = 1
    /\ IsResting(book, 1)
    /\ trades_ = <<>>

(***************************************************************************)
(* C20                                                                     *)
(***************************************************************************)
\* C20: in every trade record, and in the TRADE line written for it, the
\* passive order's quantity equals the aggressive order's quantity, and
\* both are the fill: what the passive order had before the match less
\* what it has in the book the match returns (nothing when it is gone).
C20_TradeRecordQuantities ==
    MatchCmd =>
        LET before == Resting(pre)
            matched == Resting(mid)
        IN \A k \in 1..Len(trades_) :
            \E r \in before :
                LET left == {x \in matched : x.order_id = r.order_id}
                    residual == IF left = {} THEN 0 ELSE (CHOOSE x \in left : TRUE).qty
                IN  /\ r.order_id = PassiveId(k)
                    /\ trades_[k].passive_order.qty_ = trades_[k].aggressive_order.qty_
                    /\ trades_[k].aggressive_order.qty_ = r.qty - residual
                    /\ output[k][4] = r.qty - residual
                    /\ output[k][7] = r.qty - residual

\* One command produced two trades: the first consumed its passive order,
\* the second filled a larger passive order in part.
C20_Witness ==
    /\ MatchCmd
    /\ Len(trades_) = 2
    /\ ~IsResting(mid, PassiveId(1))
    /\ IsResting(mid, PassiveId(2))
    /\ trades_[2].passive_order.qty_ < TheOrder(pre, PassiveId(2)).qty

(***************************************************************************)
(* C21                                                                     *)
(***************************************************************************)
\* The header lines of a snapshot, and its level lines between two lines.
Headers(out) == {i \in 1..Len(out) : Len(out[i]) = 1}

Between(out, a, b) == [i \in 1..(b - a - 1) |-> out[a + i]]

SellLines(out) == Between(out, 1, CHOOSE i \in Headers(out) : i > 1)

BuyLines(out) == Between(out, CHOOSE i \in Headers(out) : i > 1, Len(out) + 1)

\* The shape every snapshot has: the SELL: header first, one BUY: header
\* after the sell lines.
SnapshotShape(out) ==
    /\ Len(out) >= 2
    /\ out[1] = <<"SELL:">>
    /\ Cardinality(Headers(out)) = 2
    /\ \E i \in Headers(out) : i > 1 /\ out[i] = <<"BUY:">>

\* C21 (as the code has it): PRINT writes the sell side first and the buy
\* side second, and the levels of the sell side highest price first, as the
\* levels of the buy side.
C21_SnapshotOrder ==
    last.type = "PRINT" =>
        /\ SnapshotShape(output)
        /\ \A i, j \in 1..Len(SellLines(output)) :
            i < j => SellLines(output)[i][1] > SellLines(output)[j][1]
        /\ \A i, j \in 1..Len(BuyLines(output)) :
            i < j => BuyLines(output)[i][1] > BuyLines(output)[j][1]

\* C21 (as stated): PRINT writes the sell side first with its levels lowest
\* price first, then the buy side with its levels highest price first.
C21_SellsAscending ==
    last.type = "PRINT" =>
        /\ SnapshotShape(output)
        /\ \A i, j \in 1..Len(SellLines(output)) :
            i < j => SellLines(output)[i][1] < SellLines(output)[j][1]
        /\ \A i, j \in 1..Len(BuyLines(output)) :
            i < j => BuyLines(output)[i][1] > BuyLines(output)[j][1]

\* A PRINT of a book with two sell levels.
C21_Witness ==
    /\ last.type = "PRINT"
    /\ Len(sell_levels_) = 2
    /\ Len(SellLines(output)) = 2

(***************************************************************************)
(* C27                                                                     *)
(***************************************************************************)
\* C27: PRINT writes, after each header, one line per level of that side
\* with the level's price and aggregate quantity, the prices strictly
\* decreasing on the sell side and on the buy side; a side without levels
\* has its header only.
C27_SnapshotLines ==
    last.type = "PRINT" =>
        LET sells == SellLines(output)
            buys == BuyLines(output)
        IN  /\ SnapshotShape(output)
            /\ Len(output) = 2 + Len(sell_levels_) + Len(buy_levels_)
            /\ {<<l[1], l[2]>> : l \in {sells[i] : i \in 1..Len(sells)}}
                    = {<<p, AggregateOf(book, "Sell", p)>> :
                            p \in {r.price : r \in {x \in Resting(book) : x.side = "Sell"}}}
            /\ {<<l[1], l[2]>> : l \in {buys[i] : i \in 1..Len(buys)}}
                    = {<<p, AggregateOf(book, "Buy", p)>> :
                            p \in {r.price : r \in {x \in Resting(book) : x.side = "Buy"}}}
            /\ \A i \in 1..(Len(sells) - 1) : sells[i][1] > sells[i + 1][1]
            /\ \A i \in 1..(Len(buys) - 1) : buys[i][1] > buys[i + 1][1]
            /\ Len(sell_levels_) = 0 => output[2] = <<"BUY:">>
            /\ Len(buy_levels_) = 0 => output[Len(output)] = <<"BUY:">>

\* A PRINT of a book with two buy levels and no sell level.
C27_Witness ==
    /\ last.type = "PRINT"
    /\ Len(buy_levels_) = 2
    /\ Len(sell_levels_) = 0
    /\ Len(BuyLines(output)) = 2
    /\ BuyLines(output)[1][1] # BuyLines(output)[1][2]

(***************************************************************************)
(* C22                                                                     *)
(***************************************************************************)
\* The last command was dropped by the decoder.
Dropped == last # NoMsg /\ ~last.valid

\* C22: after a command that is dropped as malformed the decoder continues
\* with the stream: the stream is still readable when the handler of a
\* dropped command has thrown, so that the next command is decoded.
C22_StreamContinues == Dropped => ~failbit

(***************************************************************************)
(* C23                                                                     *)
(***************************************************************************)
\* The message the producer holds between decoding and pushing, and the
\* task the consumer holds between popping and running, as sequences.
Held(m) == IF m = NoMsg THEN <<>> ELSE <<m>>

\* C23: in threaded mode the messages whose tasks the consumer has run on
\* the engine, then the task it has popped, then the tasks in the queue
\* front first, then the message the producer is about to push, are the
\* valid messages the producer decoded, in the order it decoded them:
\* what the engine has seen is a prefix of it, nothing is lost, doubled or
\* reordered.
C23_TaskOrder ==
    applied \o Held(task) \o queue_ \o Held(msg_) = decoded

\* The consumer has left after running two different tasks, a buy then a
\* sell that traded with it.
C23_Witness ==
    /\ consumer = "done"
    /\ Len(applied) = 2
    /\ applied[1].type = "BUY"
    /\ applied[2].type = "SELL"
    /\ Len(trades_) = 1

(***************************************************************************)
(* C24                                                                     *)
(***************************************************************************)
\* C24: in threaded mode there is no state in which the producer has
\* finished (the flag is set) and the consumer waits in wait_and_pop on an
\* empty queue, which nothing will fill again.
C24_ConsumerNeverStuck ==
    ~(producer = "done" /\ is_producer_done
        /\ consumer = "wait_and_pop" /\ queue_ = <<>>)

(***************************************************************************)
(* C25                                                                     *)
(***************************************************************************)
\* The resting orders of the opposite side at a price the last command's
\* price crosses, its own id included.
Crossed ==
    {r \in Resting(pre) : /\ r.side = Opposite(last.side)
                          /\ Crosses(last.side, last.price, r.price)}

\* The last command is an aggressor that crosses a single resting order, of
\* another id, whose remaining quantity is the aggressor's quantity.
ExactFill ==
    /\ MatchCmd
    /\ Cardinality(Crossed) = 1
    /\ Eligible = Crossed
    /\ \A r \in Crossed : r.qty = last.qty

\* C25: after an exact fill exactly one trade is emitted, neither the
\* passive id nor the aggressor id is live, the passive order's level no
\* longer exists, and no level is created for the aggressor.
C25_ExactFillRemovesBoth ==
    ExactFill =>
        /\ Len(trades_) = 1
        /\ \A r \in Crossed :
            /\ ~IsLive(book, r.order_id)
            /\ ~IsResting(book, r.order_id)
            /\ ~HasLevel(book, r.side, r.price)
        /\ ~IsLive(book, last.order_id)
        /\ ~IsResting(book, last.order_id)
        /\ HasLevel(book, last.side, last.price) => HasLevel(pre, last.side, last.price)

(***************************************************************************)
(* C26                                                                     *)
(***************************************************************************)
\* C26: a CANCEL writes nothing, so no trade.  If its id is not live the
\* book is unchanged.  If its id is live, afterwards the id is neither live
\* nor resting, the aggregate of its level is reduced by the order's
\* remaining quantity, the level is gone if the order was its last one and
\* still there otherwise, and every queue of the book is the queue it was
\* without that order: the other orders keep side, price, quantity and
\* relative position.
C26_CancelFrame ==
    last.type = "CANCEL" =>
        /\ output = <<>>
        /\ IF ~IsLive(pre, last.order_id) THEN book = pre
           ELSE LET o == TheOrder(pre, last.order_id)
                IN  /\ ~IsLive(book, last.order_id)
                    /\ ~IsResting(book, last.order_id)
                    /\ AggregateOf(book, o.side, o.price)
                            = AggregateOf(pre, o.side, o.price) - o.qty
                    /\ HasLevel(book, o.side, o.price)
                            <=> Len(QueueOf(pre, o.side, o.price)) > 1
                    /\ \A side \in {"Buy", "Sell"}, price \in Prices :
                            QueueOf(book, side, price)
                                = Without(QueueOf(pre, side, price), {last.order_id})

\* A CANCEL of the order at the front of a level that holds another order.
C26_Witness ==
    /\ last.type = "CANCEL"
    /\ IsLive(pre, last.order_id)
    /\ LET o == TheOrder(pre, last.order_id)
       IN /\ o.pos = 1
          /\ Len(QueueOf(pre, o.side, o.price)) = 2
          /\ Len(QueueOf(book, o.side, o.price)) = 1

(***************************************************************************)
(* C28                                                                     *)
(***************************************************************************)
\* The ids that left the book during the last command (cancelled, fully
\* filled, or cleared).
Left == RestingIds(pre) \ RestingIds(book)

\* An id no stream of the model uses.
FreshId == NumIds + 1

\* MatchingEngine::handle_add of the day order (side, price, qty) with the
\* given id on the book as it is now.
ReAdd(order_id, side, price, qty) ==
    handle_add(book, side,
               Msg(IF side = "Buy" THEN "BUY" ELSE "SELL", side, "GFD",
                   order_id, price, qty))

Renamed(queue, from, to) ==
    [k \in 1..Len(queue) |->
        IF queue[k][1] = from THEN <<to, queue[k][2]>> ELSE queue[k]]

\* C28: during a command an id comes to rest only by a day BUY/SELL that
\* names it (an order that is gone does not come back by itself), and an id
\* that has left the
\* book is reusable: a day BUY/SELL with it trades and rests exactly as the
\* same order with a never-used id does, at the tail of its level when
\* something is left, with the newly submitted quantity when nothing
\* traded.
C28_IdReusable ==
    /\ (last # NoMsg /\ RestingIds(book) \ RestingIds(pre) # {}) =>
            /\ AddCmd
            /\ last.tif = "GFD"
            /\ RestingIds(book) \ RestingIds(pre) = {last.order_id}
    /\ \A order_id \in Left, side \in {"Buy", "Sell"}, price \in Prices, qty \in Qtys :
        LET r == ReAdd(order_id, side, price, qty)
            f == ReAdd(FreshId, side, price, qty)
        IN  /\ Len(r.trades) = Len(f.trades)
            /\ r.leaves_qty = f.leaves_qty
            /\ \A s \in {"Buy", "Sell"}, p \in Prices :
                    QueueOf(r.book, s, p) = Renamed(QueueOf(f.book, s, p), FreshId, order_id)
            /\ r.leaves_qty > 0 =>
                    QueueOf(r.book, side, price)
                        = QueueOf(book, side, price) \o <<<<order_id, r.leaves_qty>>>>
            /\ Len(r.trades) = 0 => r.leaves_qty = qty

\* The order at the front of a level with another order behind it has just
\* been cancelled; re-added at that level it would queue behind the other.
C28_Witness ==
    /\ last.type = "CANCEL"
    /\ last.order_id \in Left
    /\ LET o == TheOrder(pre, last.order_id)
       IN /\ o.pos = 1
          /\ o.qty = MaxQty
          /\ Len(QueueOf(book, o.side, o.price)) = 1
          /\ Len(QueueOf(ReAdd(last.order_id, o.side, o.price, 1).book,
                         o.side, o.price)) = 2

(***************************************************************************)
(* C29                                                                     *)
(***************************************************************************)
\* Is the sequence sub the sequence seq without some of its elements?
RECURSIVE IsSubSeq(_, _)
IsSubSeq(sub, seq) ==
    IF sub = <<>> THEN TRUE
    ELSE IF seq = <<>> THEN FALSE
    ELSE IF Head(sub) = Head(seq) THEN IsSubSeq(Tail(sub), Tail(seq))
    ELSE IsSubSeq(sub, Tail(seq))

\* C29: across Book::match (from pre to mid) the levels of the aggressor's
\* own side are unchanged, no id enters the id map or the book, no level
\* appears on the opposite side, and on the opposite side every order that
\* is still there is where it was with at most its former quantity, in the
\* former relative order, while every order that is gone or reduced is the
\* passive order of a trade.
C29_MatchNeverRests ==
    MatchCmd =>
        LET opp == Opposite(last.side)
        IN  /\ LevelsOf(mid, last.side) = LevelsOf(pre, last.side)
            /\ DOMAIN mid.orders_by_id_ \subseteq DOMAIN pre.orders_by_id_
            /\ RestingIds(mid) \subseteq RestingIds(pre)
            /\ \A p \in Prices : HasLevel(mid, opp, p) => HasLevel(pre, opp, p)
            /\ \A p \in Prices : IsSubSeq(QueueIds(mid, opp, p), QueueIds(pre, opp, p))
            /\ \A r \in Resting(mid) :
                    r.side = opp => /\ TheOrder(pre, r.order_id).side = opp
                                    /\ TheOrder(pre, r.order_id).price = r.price
                                    /\ TheOrder(pre, r.order_id).qty >= r.qty
            /\ \A r \in Resting(pre) :
                    (r.side = opp /\ (~IsResting(mid, r.order_id)
                                        \/ TheOrder(mid, r.order_id).qty < r.qty))
                        => \E k \in 1..Len(trades_) : PassiveId(k) = r.order_id

\* A day order traded, left the opposite side changed, and what was left of
\* it came to rest only after Book::match had returned.
C29_Witness ==
    /\ AddCmd
    /\ Len(trades_) > 0
    /\ mid # pre
    /\ ~IsResting(mid, last.order_id)
    /\ IsResting(book, last.order_id)

(***************************************************************************)
(* C30                                                                     *)
(***************************************************************************)
\* The queue slots of book b: side, index of the level, index in the queue.
Slots(b) ==
    UNION {UNION {{<<s, i, j>> : j \in 1..Len(LevelsOf(b, s)[i].orders_)} :
                    i \in 1..Len(LevelsOf(b, s))} :
            s \in {"Buy", "Sell"}}

IdAt(b, slot) == LevelsOf(b, slot[1])[slot[2]].orders_[slot[3]].order_id_

\* C30: every order id is in at most one queue slot of the whole book.
C30_IdOccursOnce ==
    \A x, y \in Slots(book) : IdAt(book, x) = IdAt(book, y) => x = y

\* A day order that names a live id resting on the other side, with
\* something left after matching, was rejected: the id still rests once.
C30_Witness ==
    /\ AddCmd
    /\ last.tif = "GFD"
    /\ leaves_qty > 0
    /\ IsLive(pre, last.order_id)
    /\ IsResting(book, last.order_id)
    /\ TheOrder(book, last.order_id).side # last.side

(***************************************************************************)
(* C31                                                                     *)
(***************************************************************************)
\* The last command is a BUY, SELL or MODIFY whose fields were all read and
\* one of which is not acceptable: a zero price, a zero quantity, a tif
\* token that is neither GFD nor IOC, a side token that is neither BUY nor
\* SELL.
ParsedInvalid ==
    /\ last.type \in {"BUY", "SELL", "MODIFY"}
    /\ ~last.fail
    /\ \/ last.price = 0
       \/ last.qty = 0
       \/ last.type \in {"BUY", "SELL"} /\ last.tif \notin {"GFD", "IOC"}
       \/ last.type = "MODIFY" /\ last.side \notin {"Buy", "Sell"}

\* C31: such a command is dropped before the engine sees it: nothing is
\* written, the book is the book before it, and the stream is readable for
\* the next command.
C31_InvalidIsDropped ==
    ParsedInvalid =>
        /\ ~last.valid
        /\ output = <<>>
        /\ book = pre
        /\ ~failbit

\* A SELL at price zero, which every resting buy would cross, was dropped
\* with a buy resting.
C31_Witness ==
    /\ ParsedInvalid
    /\ last.type = "SELL"
    /\ last.price = 0
    /\ last.qty > 0
    /\ buy_levels_ # <<>>

(***************************************************************************)
(* C32                                                                     *)
(***************************************************************************)
\* C32: the assertions of the code hold and the quantities stay legal.
\* Every resting order has a quantity above zero.  An id of the map names
\* an order resting in the book.  When a CANCEL reaches Level::cancel, the
\* aggregate of the level is at least the quantity of the order it
\* subtracts.  When a command matches, each fill is at most the quantity
\* the passive order had and at most what was left of the aggressor, and
\* the aggregate of a passive order's level is at least that order's
\* quantity.
C32_AssertionsHold ==
    /\ \A r \in Resting(book) : r.qty > 0
    /\ \A order_id \in DOMAIN orders_by_id_ : IsResting(book, order_id)
    /\ (last.type = "CANCEL" /\ IsLive(pre, last.order_id)) =>
            /\ IsResting(pre, last.order_id)
            /\ AggregateOf(pre, TheOrder(pre, last.order_id).side,
                            TheOrder(pre, last.order_id).price)
                    >= TheOrder(pre, last.order_id).qty
    /\ MatchCmd =>
            \A k \in 1..Len(trades_) :
                /\ IsResting(pre, PassiveId(k))
                /\ FillQty(k) > 0
                /\ FillQty(k) <= TheOrder(pre, PassiveId(k)).qty
                /\ SumFills(k) <= last.qty
                /\ AggregateOf(pre, TheOrder(pre, PassiveId(k)).side,
                                TheOrder(pre, PassiveId(k)).price)
                        >= TheOrder(pre, PassiveId(k)).qty

(***************************************************************************)
(* C33                                                                     *)
(***************************************************************************)
\* C33: the cached aggregate of a level does not wrap around: it is never
\* smaller than the quantity of one of the orders resting in the level.
C33_AggregateNeverWraps ==
    \A r \in Resting(book) : AggregateOf(book, r.side, r.price) >= r.qty

(***************************************************************************)
(* C34                                                                     *)
(***************************************************************************)
\* The orders of book b that an aggressor of the last command's side, id
\* and price could still trade with.
Matchable(b) ==
    {r \in Resting(b) : /\ r.side = Opposite(last.side)
                        /\ r.order_id # last.order_id
                        /\ Crosses(last.side, last.price, r.price)}

\* C34: when the match of a BUY, SELL or MODIFY ends with leaves above
\* zero, no order of another id is left on the opposite side at a price
\* the aggressor's price crosses, neither in the book the match returns
\* nor in the book after the command.
C34_MatchIsMaximal ==
    (MatchCmd /\ leaves_qty > 0) =>
        /\ Matchable(mid) = {}
        /\ Matchable(book) = {}

\* An aggressor traded, has something left, and the opposite side still
\* holds an order, at a price it does not cross.
C34_Witness ==
    /\ MatchCmd
    /\ leaves_qty > 0
    /\ Len(trades_) = 1
    /\ Matchable(pre) # {}
    /\ \E r \in Resting(mid) : r.side = Opposite(last.side)

(***************************************************************************)
(* C35                                                                     *)
(***************************************************************************)
\* CommandProcessor::handle(msg) of the single-threaded mode on the engine
\* e, for a valid message.
RunCommand(e, msg) ==
    IF msg.type = "BUY" THEN Written(e, handle_add(e.book, "Buy", msg))
    ELSE IF msg.type = "SELL" THEN Written(e, handle_add(e.book, "Sell", msg))
    ELSE IF msg.type = "CANCEL"
    THEN [e EXCEPT !.book = Book_cancel(e.book, msg.order_id), !.output = <<>>]
    ELSE IF msg.type = "MODIFY" THEN Written(e, handle_ModifyOrder(e.book, msg))
    ELSE IF msg.type = "PRINT" THEN [e EXCEPT !.output = BookLines(e.book)]
    ELSE [e EXCEPT !.book = Book_clear(e.book), !.output = <<>>]

\* The single-threaded program after the first n of the valid messages of
\* a stream: its engine and the lines it has written.  Both modes decode
\* with CommandProcessor_T::run, and a message it drops writes nothing.
RECURSIVE SingleThreaded(_, _)
SingleThreaded(msgs, n) ==
    IF n = 0 THEN [engine |-> NewEngine(TRUE, FALSE), lines |-> <<>>]
    ELSE LET s == SingleThreaded(msgs, n - 1)
             e == RunCommand(s.engine, msgs[n])
         IN [engine |-> e, lines |-> s.lines \o e.output]

\* C35: in threaded mode the lines written so far are the lines the
\* single-threaded program writes for the messages applied so far, the
\* book is its book; the consumer leaves only after the producer; and when
\* the producer has left and no task is queued or held, the lines are those
\* of the whole stream.
C35_SameOutput ==
    /\ written = SingleThreaded(decoded, Len(applied)).lines
    /\ book = SingleThreaded(decoded, Len(applied)).engine.book
    /\ consumer = "done" => (producer = "done" /\ queue_ = <<>>)
    /\ (producer = "done" /\ queue_ = <<>> /\ task = NoMsg) =>
            written = SingleThreaded(decoded, Len(decoded)).lines

\* The consumer has left after a BUY that rested and a PRINT that showed
\* it.
C35_Witness ==
    /\ consumer = "done"
    /\ Len(decoded) = 2
    /\ decoded[1].type = "BUY"
    /\ decoded[2].type = "PRINT"
    /\ Len(written) = 3

(***************************************************************************)
(* C36                                                                     *)
(***************************************************************************)
\* The number of tasks pushed so far.
Pushed == Len(applied) + Len(Held(task)) + Len(queue_)

\* C36: under fair scheduling of the consumer every pushed task is
\* eventually run; a task is run when it has been popped, once, and no more
\* tasks are run than were pushed; a pop takes the front of a queue that is
\* not empty; try_pop on an empty queue leaves the queue and the task alone
\* and ends the loop.
C36_EveryTaskRunsOnce ==
    /\ \A n \in 1..MaxTasks : (Pushed >= n) ~> (Len(applied) >= n)
    /\ [](Pushed <= Len(decoded))
    /\ [][applied' # applied =>
            /\ task # NoMsg
            /\ applied' = Append(applied, task)
            /\ task' = NoMsg
            /\ queue_' = queue_]_vars
    /\ [][(task' # task /\ task' # NoMsg) =>
            /\ consumer \in {"wait_and_pop", "try_pop"}
            /\ queue_ # <<>>
            /\ task' = Head(queue_)
            /\ queue_' = Tail(queue_)]_vars
    /\ [][(consumer = "try_pop" /\ consumer' # consumer /\ queue_ = <<>>) =>
            /\ consumer' = "done"
            /\ queue_' = queue_
            /\ task' = task]_vars

\* The consumer has left after a task popped by wait_and_pop and a task
\* popped by try_pop: the queue held a task when the flag was read as set.
C36_Witness ==
    /\ consumer = "remaining_task"
    /\ Len(applied) = 1
    /\ task # NoMsg
    /\ is_producer_done

(***************************************************************************)
(* C37                                                                     *)
(***************************************************************************)
IsTradeLine(line) == Len(line) = 7 /\ line[1] = "TRADE"

\* The quantity of the order order_id resting in b; 0 when it does not rest.
RestingQty(b, order_id) ==
    IF IsResting(b, order_id) THEN TheOrder(b, order_id).qty ELSE 0

\* What the trades of the buffer took from the order order_id.
FilledOf(order_id) ==
    LET S == {k \in 1..Len(trades_) : PassiveId(k) = order_id}
    IN IF S = {} THEN 0 ELSE FillQty(CHOOSE k \in S : TRUE)

\* C37: after a BUY, SELL or MODIFY the lines written are the lines of the
\* trade buffer, one per fill of this command: each names the command's
\* order as the aggressor and a different order that rested before the
\* command, the fills come in match order (better price first, then
\* earlier in the queue), and the book Book::match leaves differs from the
\* book before the command by exactly these fills, each taken once.  A
\* CANCEL, CLEAR or PRINT, and a command that is dropped, write no trade
\* line.
C37_TradesAreThisCommandsFills ==
    /\ MatchCmd =>
        /\ output = TradeLines(trades_)
        /\ \A i \in 1..Len(output) : IsTradeLine(output[i])
        /\ \A k \in 1..Len(trades_) :
            /\ trades_[k].aggressive_order.order_id_ = last.order_id
            /\ trades_[k].aggressive_price = last.price
            /\ PassiveId(k) \in {r.order_id : r \in Eligible}
            /\ trades_[k].passive_price = TheOrder(pre, PassiveId(k)).price
            /\ trades_[k].passive_order.qty_ = FillQty(k)
            /\ FillQty(k) > 0
        /\ \A j, k \in 1..Len(trades_) :
                j < k => /\ PassiveId(j) # PassiveId(k)
                         /\ Ahead(last.side, TheOrder(pre, PassiveId(j)),
                                             TheOrder(pre, PassiveId(k)))
        /\ \A r \in Resting(pre) :
                RestingQty(mid, r.order_id) = r.qty - FilledOf(r.order_id)
        /\ RestingIds(mid) \subseteq RestingIds(pre)
    /\ (last # NoMsg /\ ~MatchCmd) =>
            \A i \in 1..Len(output) : ~IsTradeLine(output[i])

\* A command that trades with two resting orders, the first of them at the
\* better price, and leaves the second one partly filled.
C37_Witness ==
    /\ MatchCmd
    /\ Len(trades_) = 2
    /\ Len(output) = 2
    /\ trades_[1].passive_price # trades_[2].passive_price
    /\ IsResting(mid, PassiveId(2))

====
